---- MODULE Spec2Model ----
(***************************************************************************)
(* A model of the EmergencyCareNavigator agents (src/app/agents.py), the   *)
(* provider tools they call (src/app/tools.py), the preference file        *)
(* (src/app/memory.py) and the counters (src/app/observability.py).        *)
(*                                                                         *)
(* Conventions.  An Optional[T] value is None (the empty tuple) or         *)
(* Some(x) (a one-element tuple).  A Python str that the code takes apart  *)
(* (names, narrative text) is a tuple of one-character strings; a str the  *)
(* code only stores or compares is a TLA+ string.  A latitude or longitude *)
(* is an integer number of 1e-4 degrees; a distance is an integer number   *)
(* of 0.01 km (the code rounds distance_km to 2 decimals).                 *)
(***************************************************************************)
EXTENDS Integers, Sequences, FiniteSets, TLC

VARIABLES
    booking,         \* CoordinatorAgent.booking : BookingState
    intake,          \* CoordinatorAgent.intake : Optional[IntakeAnswers]
    triage,          \* CoordinatorAgent.triage : Optional[TriageResult]
    recommendation,  \* CoordinatorAgent.recommendation : Optional[Recommendation]
    memFile,         \* contents of MEM_PATH (memory_bank.json), None when absent
    metrics,         \* observability.METRICS
    clock,           \* the wall clock read by now_iso()
    runs,            \* number of CoordinatorAgent.run calls made so far
    last,            \* outcome (return or raise) of the last call made
    triageIn,        \* argument of the TriageAgent.run call under test
    llmIn,           \* behaviour of the narrative generator during that call
    triageOut,       \* Optional result of that call
    llmAgain,        \* Optional behaviour of the generator during a second call
    triageAgain,     \* Optional result of the second call with the same argument
    finderIn,        \* arguments and providers of the FacilityFinderAgent.run call under test
    finderOut,       \* Optional result of that call
    toolIn,          \* the tool called on its own and the script of its provider
    toolOut,         \* Optional outcome of that call
    coordinators,    \* the CoordinatorAgent of each session of one server process
    triage_sessions, \* the triage_sessions table: the row of each session id, if any
    bookings,        \* the bookings table: the row of each session id, if any
    refused,         \* the session ids whose intake request was answered with an error
    sessions,        \* api_server.sessions[session_id] on each server instance
    dbSession,       \* the TriageSessionModel row of the session, if any
    dbBooking,       \* the BookingModel row of the session, if any
    booking_data,    \* the dict kept in hospital_bookings and patient_requests
    response,        \* the last HTTP response given
    succeeded        \* the transition requests answered 200 so far

vars == <<booking, intake, triage, recommendation, memFile, metrics, clock,
          runs, last, triageIn, llmIn, triageOut, llmAgain, triageAgain,
          finderIn, finderOut, toolIn, toolOut, coordinators,
          triage_sessions, bookings, refused,
          sessions, dbSession,
          dbBooking, booking_data, response, succeeded>>

coordVars == <<booking, intake, triage, recommendation, memFile, clock, runs, last>>
triageVars == <<triageIn, llmIn, triageOut, llmAgain, triageAgain>>
finderVars == <<finderIn, finderOut>>
toolVars == <<toolIn, toolOut>>
sessVars == <<coordinators, triage_sessions, bookings, refused>>
apiVars == <<sessions, dbSession, dbBooking, booking_data, response, succeeded>>

----------------------------------------------------------------------------
(* Bounds *)

MaxSymptoms == 3
MaxRuns == 1
MaxClock == 2

----------------------------------------------------------------------------
(* Optional values and strings *)

None == <<>>
Some(x) == <<x>>

\* str.strip() on a tuple of characters (only the blank is whitespace here)
RECURSIVE LStrip(_)
LStrip(s) == IF s # <<>> /\ Head(s) = " " THEN LStrip(Tail(s)) ELSE s

RECURSIVE RStrip(_)
RStrip(s) ==
    IF s # <<>> /\ s[Len(s)] = " " THEN RStrip(SubSeq(s, 1, Len(s) - 1)) ELSE s

Strip(s) == RStrip(LStrip(s))

\* str.split(",")[0]: the text before the first comma
RECURSIVE SplitComma0(_)
SplitComma0(s) ==
    IF s = <<>> \/ Head(s) = "," THEN <<>> ELSE <<Head(s)>> \o SplitComma0(Tail(s))

LowerChar(c) ==
    CASE c = "A" -> "a" [] c = "B" -> "b" [] c = "C" -> "c" [] c = "D" -> "d"
      [] c = "E" -> "e" [] c = "F" -> "f" [] c = "G" -> "g" [] c = "P" -> "p"
      [] c = "Q" -> "q" [] OTHER -> c

Lower(s) == [i \in 1..Len(s) |-> LowerChar(s[i])]

----------------------------------------------------------------------------
(* models.py *)

RedFlagNames ==
    {"unconscious", "breathing_difficulty", "chest_pain", "stroke_signs",
     "major_bleeding", "severe_allergy"}

FlagNames == RedFlagNames \cup {"pregnancy", "injury_trauma"}

SymptomWords == {"fever", "mild cough"}

SymptomLists == UNION {[1..n -> SymptomWords] : n \in 0..MaxSymptoms}

\* IntakeAnswers; age_years, sex and duration_minutes are read by no agent
\* and are left out.
IntakeAnswers(name, loc, symptoms, flags) ==
    [name |-> name, location_query |-> loc, symptoms |-> symptoms,
     unconscious |-> "unconscious" \in flags,
     breathing_difficulty |-> "breathing_difficulty" \in flags,
     chest_pain |-> "chest_pain" \in flags,
     stroke_signs |-> "stroke_signs" \in flags,
     major_bleeding |-> "major_bleeding" \in flags,
     severe_allergy |-> "severe_allergy" \in flags,
     pregnancy |-> "pregnancy" \in flags,
     injury_trauma |-> "injury_trauma" \in flags]

TriageResult(level, reason, action, safety) ==
    [level |-> level, reason |-> reason, recommended_action |-> action,
     safety_note |-> safety]

\* BookingState(): the defaults of the model class
BookingState ==
    [request_type |-> "alert", status |-> "not_started", facility_name |-> None,
     requested_at |-> None, approved_at |-> None, acknowledged_at |-> None,
     note |-> None, session_id |-> None, patient_name |-> None,
     triage_level |-> None]

\* observability.METRICS at import
METRICS == [tool_calls |-> 0, llm_calls |-> 0, errors |-> 0]

----------------------------------------------------------------------------
(* llm_client.py: the narrative generator.  A behaviour is the client in   *)
(* use and, for Gemini, whether the call raises or the text it returns.    *)

MockText == <<"m", "o", "c", "k">>

LLMBehaviours ==
    {[client |-> "mock"],
     [client |-> "gemini", raises |-> TRUE],
     [client |-> "gemini", raises |-> FALSE, text |-> <<>>],
     [client |-> "gemini", raises |-> FALSE, text |-> <<" ">>],
     [client |-> "gemini", raises |-> FALSE, text |-> <<" ", "o", "k", " ">>]}

\* LLMClient.generate: [raised, text, llm_calls increment]
llm_generate(b) ==
    IF b.client = "mock"
    THEN [raised |-> FALSE, text |-> MockText, llm_calls |-> 0]
    ELSE IF b.raises
         THEN [raised |-> TRUE, text |-> <<>>, llm_calls |-> 1]
         ELSE [raised |-> FALSE, text |-> b.text, llm_calls |-> 1]

----------------------------------------------------------------------------
(* agents.py: TriageAgent *)

ReasonRedFlag == "One or more red-flag symptoms present (airway/breathing/circulation/neurologic risk)."
ReasonTrauma == "Trauma/injury reported without immediate red flags."
ReasonNone == "No immediate red flags reported."
ActionEmergency == "CALL EMERGENCY SERVICES (911/ambulance) NOW. Do not delay. Prefer ambulance/ER."
ActionUrgent == "Seek urgent medical evaluation immediately. Consider ER/urgent care. If symptoms worsen, call emergency services."
ActionWatch == "If symptoms worsen or new red flags appear, escalate to emergency care."
SafetyNote == "IMPORTANT: This tool does NOT diagnose. If you're unsure, treat it as urgent. For emergencies, call local emergency services (911/ambulance) immediately."

\* red_flags without its last entry
red_flags_NoAllergy(i) ==
    <<i.unconscious, i.breathing_difficulty, i.chest_pain, i.stroke_signs,
      i.major_bleeding>>

\* red_flags with the pregnancy indicator counted as a red flag
red_flags_WithPregnancy(i) ==
    <<i.unconscious, i.breathing_difficulty, i.chest_pain, i.stroke_signs,
      i.major_bleeding, i.severe_allergy, i.pregnancy>>

red_flags(i) ==
    <<i.unconscious, i.breathing_difficulty, i.chest_pain, i.stroke_signs,
      i.major_bleeding, i.severe_allergy>>

any(bs) == \E k \in 1..Len(bs) : bs[k]

\* the branches with the symptom count tested before injury_trauma
TriageBranch_SymptomsFirst(i) ==
    IF any(red_flags(i))
    THEN <<"emergency", ReasonRedFlag, ActionEmergency>>
    ELSE IF Len(i.symptoms) >= 2
         THEN <<"medium", ReasonNone, ActionWatch>>
         ELSE IF i.injury_trauma
              THEN <<"high", ReasonTrauma, ActionUrgent>>
              ELSE <<"low", ReasonNone, ActionWatch>>

\* the branches with `> 2` for `>= 2`
TriageBranch_MoreThanTwo(i) ==
    IF any(red_flags(i))
    THEN <<"emergency", ReasonRedFlag, ActionEmergency>>
    ELSE IF i.injury_trauma
         THEN <<"high", ReasonTrauma, ActionUrgent>>
         ELSE <<IF Len(i.symptoms) > 2 THEN "medium" ELSE "low",
                ReasonNone, ActionWatch>>

\* the if/elif/else of TriageAgent.run: <<level, reason, action>>
TriageBranch(i) ==
    IF any(red_flags(i))
    THEN <<"emergency", ReasonRedFlag, ActionEmergency>>
    ELSE IF i.injury_trauma
         THEN <<"high", ReasonTrauma, ActionUrgent>>
         ELSE <<IF Len(i.symptoms) >= 2 THEN "medium" ELSE "low",
                ReasonNone, ActionWatch>>

\* TriageAgent.run leaving the safety note out when the generator raised
TriageAgent_run_NoNoteOnError(i, b) ==
    LET br == TriageBranch(i)
        g == llm_generate(b)
        explanation == IF g.raised THEN <<>> ELSE Strip(g.text)
        final_reason ==
            IF explanation # <<>>
            THEN <<br[2], "\n\nLLM Explanation:\n", explanation>>
            ELSE <<br[2]>>
    IN  [result |-> TriageResult(br[1], final_reason, br[3],
                                 IF g.raised THEN "" ELSE SafetyNote),
         llm_calls |-> g.llm_calls,
         errors |-> IF g.raised THEN 1 ELSE 0]

\* TriageAgent.run: the TriageResult and the increments of METRICS
TriageAgent_run(i, b) ==
    LET br == TriageBranch(i)
        g == llm_generate(b)
        explanation == IF g.raised THEN <<>> ELSE Strip(g.text)
        final_reason ==
            IF explanation # <<>>
            THEN <<br[2], "\n\nLLM Explanation:\n", explanation>>
            ELSE <<br[2]>>
    IN  [result |-> TriageResult(br[1], final_reason, br[3], SafetyNote),
         llm_calls |-> g.llm_calls,
         errors |-> IF g.raised THEN 1 ELSE 0]

AddMetrics(m, tool_calls, llm_calls, errors) ==
    [tool_calls |-> m.tool_calls + tool_calls,
     llm_calls |-> m.llm_calls + llm_calls,
     errors |-> m.errors + errors]

----------------------------------------------------------------------------
(* tools.py.  A provider is modelled by a script: the tuple of its         *)
(* responses to the successive requests of one tool call.                  *)

GeocodeMaxRetries == 2
FindMaxRetries == 2
EtaMaxRetries == 1

\* the place the geocoder resolves location queries to
Origin == <<248607, 670011>>
OriginLat == Origin[1]
OriginLon == Origin[2]

Lats == {248607, 248608, 248612, 248652, 248700}
Lons == {670011, 670013, 670052, 670300}

\* round(haversine_km(OriginLat, OriginLon, lat, lon), 2) in 0.01 km, as
\* evaluated by the Python formula (R = 6371.0) on the grid Lats \X Lons
HaversineTable ==
    <<248607, 670011>> :> 0 @@
    <<248607, 670013>> :> 2 @@
    <<248607, 670052>> :> 41 @@
    <<248607, 670300>> :> 292 @@
    <<248608, 670011>> :> 1 @@
    <<248608, 670013>> :> 2 @@
    <<248608, 670052>> :> 41 @@
    <<248608, 670300>> :> 292 @@
    <<248612, 670011>> :> 6 @@
    <<248612, 670013>> :> 6 @@
    <<248612, 670052>> :> 42 @@
    <<248612, 670300>> :> 292 @@
    <<248652, 670011>> :> 50 @@
    <<248652, 670013>> :> 50 @@
    <<248652, 670052>> :> 65 @@
    <<248652, 670300>> :> 296 @@
    <<248700, 670011>> :> 103 @@
    <<248700, 670013>> :> 103 @@
    <<248700, 670052>> :> 111 @@
    <<248700, 670300>> :> 309

\* round(haversine_km(lat1, lon1, lat2, lon2), 2); every call of the code
\* passes the geocoded origin as (lat1, lon1)
haversine_km(lat1, lon1, lat2, lon2) == HaversineTable[<<lat2, lon2>>]

\* round(x, 3) of a coordinate in 1e-4 degrees (no value on the grid is a tie)
Round3(v) == ((v + 5) \div 10) * 10

\* int(round(seconds / 60)): Python rounds an exact half to the even integer
RoundMinutes(seconds) ==
    LET q == seconds \div 60
        r == seconds % 60
    IN  IF r < 30 THEN q
        ELSE IF r > 30 THEN q + 1
        ELSE IF q % 2 = 0 THEN q ELSE q + 1

\* responses of the geocoding provider to one request
GeoTransport == [t |-> "transport"]   \* RequestException, raise_for_status included
GeoEmpty == [t |-> "empty"]           \* 200 with an empty list
GeoBad == [t |-> "bad"]               \* first item without lat/lon or not numeric
GeoNull == [t |-> "null"]             \* first item with a null lat or lon
GeoOk(lat, lon, disp) == [t |-> "ok", lat |-> lat, lon |-> lon, display |-> disp]

\* tool_geocode retrying an empty result list as it retries a transport
\* error
RECURSIVE GeocodeLoop_RetriesEmpty(_, _, _)
GeocodeLoop_RetriesEmpty(script, attempt, max_retries) ==
    LET r == script[attempt + 1]
        n == attempt + 1
    IN  IF r.t = "ok"
        THEN [ok |-> TRUE, lat |-> r.lat, lon |-> r.lon, display |-> r.display,
              requests |-> n, errors |-> 0]
        ELSE IF r.t \in {"transport", "empty"}
        THEN IF attempt < max_retries
             THEN GeocodeLoop_RetriesEmpty(script, attempt + 1, max_retries)
             ELSE [ok |-> FALSE, exc |-> "ValueError", requests |-> n, errors |-> 1]
        ELSE IF r.t = "null"
        THEN [ok |-> FALSE, exc |-> "TypeError", requests |-> n, errors |-> 0]
        ELSE [ok |-> FALSE, exc |-> "ValueError", requests |-> n, errors |-> 1]

\* tool_geocode from attempt `attempt` on; `n` counts the requests issued.
\* float(None) raises TypeError, which no except clause of the loop names:
\* it leaves the tool as it is, without the error being counted
RECURSIVE GeocodeLoop(_, _, _)
GeocodeLoop(script, attempt, max_retries) ==
    LET r == script[attempt + 1]
        n == attempt + 1
    IN  IF r.t = "ok"
        THEN [ok |-> TRUE, lat |-> r.lat, lon |-> r.lon, display |-> r.display,
              requests |-> n, errors |-> 0]
        ELSE IF r.t = "transport"
        THEN IF attempt < max_retries
             THEN GeocodeLoop(script, attempt + 1, max_retries)
             ELSE [ok |-> FALSE, exc |-> "ValueError", requests |-> n, errors |-> 1]
        ELSE IF r.t = "null"
        THEN [ok |-> FALSE, exc |-> "TypeError", requests |-> n, errors |-> 0]
        ELSE [ok |-> FALSE, exc |-> "ValueError", requests |-> n, errors |-> 1]

tool_geocode(query, script) == GeocodeLoop(script, 0, GeocodeMaxRetries)

\* a field of a directory item: a number, absent (KeyError), a string that
\* is not a number (ValueError), or a JSON null (float(None): TypeError)
Num(v) == [t |-> "num", v |-> v]
Missing == [t |-> "missing"]
NonNumeric == [t |-> "nonnumeric"]
Null == [t |-> "null"]

Item(display_name, lat, lon) == [display_name |-> display_name, lat |-> lat, lon |-> lon]

Unknown == <<"U", "n", "k", "n", "o", "w", "n">>

Facility(name, address, lat, lon, kind) ==
    [name |-> name, address |-> address, lat |-> lat, lon |-> lon, kind |-> kind,
     distance_km |-> None, eta_minutes |-> None, source |-> "OSM/Nominatim"]

\* the Facility built from one item of the response
BuildFacility(item, kind) ==
    Facility(SplitComma0(IF item.display_name = None THEN Unknown
                         ELSE item.display_name[1]),
             IF item.display_name = None THEN Unknown ELSE item.display_name[1],
             item.lat.v, item.lon.v, kind)

\* the field of the item that float() fails on: lat is converted first
FirstBadField(item) == IF item.lat.t # "num" THEN item.lat ELSE item.lon

\* the for loop over data of tool_find_facilities, `acc` being the list
\* built so far; ok is FALSE when an item raises, and caught is FALSE when
\* what it raises is not a KeyError or a ValueError
RECURSIVE BuildFacilities(_, _, _)
BuildFacilities(data, kind, acc) ==
    IF data = <<>> THEN [ok |-> TRUE, caught |-> TRUE, fs |-> acc]
    ELSE IF Head(data).lat.t # "num" \/ Head(data).lon.t # "num"
    THEN [ok |-> FALSE, caught |-> FirstBadField(Head(data)).t # "null", fs |-> <<>>]
    ELSE BuildFacilities(Tail(data), kind,
                         Append(acc, BuildFacility(Head(data), kind)))

DirTransport == [t |-> "transport"]
DirOk(items) == [t |-> "ok", items |-> items]

\* the outcome of an attempt that got a response: the list, or no list and
\* one error when an item was malformed; the error is counted by the except
\* clause of the tool when it catches it and by the caller's when the tool
\* raises
FindResult(b, n) ==
    IF b.ok
    THEN [raised |-> FALSE, facilities |-> b.fs, requests |-> n, errors |-> 0]
    ELSE [raised |-> ~b.caught, facilities |-> <<>>, requests |-> n, errors |-> 1]

\* tool_find_facilities retrying once more than max_retries
RECURSIVE FindLoop_OneMoreRetry(_, _, _, _)
FindLoop_OneMoreRetry(script, kind, attempt, max_retries) ==
    IF script[attempt + 1].t = "ok"
    THEN FindResult(BuildFacilities(script[attempt + 1].items, kind, <<>>),
                    attempt + 1)
    ELSE IF attempt <= max_retries
    THEN FindLoop_OneMoreRetry(script, kind, attempt + 1, max_retries)
    ELSE [raised |-> FALSE, facilities |-> <<>>, requests |-> attempt + 1,
          errors |-> 1]

RECURSIVE FindLoop(_, _, _, _)
FindLoop(script, kind, attempt, max_retries) ==
    IF script[attempt + 1].t = "ok"
    THEN FindResult(BuildFacilities(script[attempt + 1].items, kind, <<>>),
                    attempt + 1)
    ELSE IF attempt < max_retries
    THEN FindLoop(script, kind, attempt + 1, max_retries)
    ELSE [raised |-> FALSE, facilities |-> <<>>, requests |-> attempt + 1,
          errors |-> 1]

tool_find_facilities(lat, lon, query, kind, script) ==
    FindLoop(script, kind, 0, FindMaxRetries)

EtaTransport == [t |-> "transport"]
EtaStatus == [t |-> "status"]          \* status_code != 200
EtaNoRoutes == [t |-> "noroutes"]
EtaNoDuration == [t |-> "noduration"]
EtaOk(seconds) == [t |-> "ok", seconds |-> seconds]

\* tool_eta_minutes answering 0 for a response without route or duration
RECURSIVE EtaLoop_ZeroWhenMissing(_, _, _)
EtaLoop_ZeroWhenMissing(script, attempt, max_retries) ==
    LET r == script[attempt + 1]
        n == attempt + 1
    IN  IF r.t = "ok"
        THEN [raised |-> FALSE, eta |-> Some(RoundMinutes(r.seconds)), requests |-> n, errors |-> 0]
        ELSE IF r.t = "status"
        THEN IF attempt < max_retries
             THEN EtaLoop_ZeroWhenMissing(script, attempt + 1, max_retries)
             ELSE [raised |-> FALSE, eta |-> None, requests |-> n, errors |-> 0]
        ELSE IF r.t = "transport"
        THEN IF attempt < max_retries
             THEN EtaLoop_ZeroWhenMissing(script, attempt + 1, max_retries)
             ELSE [raised |-> FALSE, eta |-> None, requests |-> n, errors |-> 1]
        ELSE [raised |-> FALSE, eta |-> Some(0), requests |-> n, errors |-> 0]

\* tool_eta_minutes re-raising the transport error of its last attempt
RECURSIVE EtaLoop_RaisesWhenExhausted(_, _, _)
EtaLoop_RaisesWhenExhausted(script, attempt, max_retries) ==
    LET r == script[attempt + 1]
        n == attempt + 1
    IN  IF r.t = "ok"
        THEN [raised |-> FALSE, eta |-> Some(RoundMinutes(r.seconds)),
              requests |-> n, errors |-> 0]
        ELSE IF r.t = "status"
        THEN IF attempt < max_retries
             THEN EtaLoop_RaisesWhenExhausted(script, attempt + 1, max_retries)
             ELSE [raised |-> FALSE, eta |-> None, requests |-> n, errors |-> 0]
        ELSE IF r.t = "transport"
        THEN IF attempt < max_retries
             THEN EtaLoop_RaisesWhenExhausted(script, attempt + 1, max_retries)
             ELSE [raised |-> TRUE, eta |-> None, requests |-> n, errors |-> 1]
        ELSE [raised |-> FALSE, eta |-> None, requests |-> n, errors |-> 0]

RECURSIVE EtaLoop(_, _, _)
EtaLoop(script, attempt, max_retries) ==
    LET r == script[attempt + 1]
        n == attempt + 1
    IN  IF r.t = "ok"
        THEN [raised |-> FALSE, eta |-> Some(RoundMinutes(r.seconds)), requests |-> n, errors |-> 0]
        ELSE IF r.t = "status"
        THEN IF attempt < max_retries
             THEN EtaLoop(script, attempt + 1, max_retries)
             ELSE [raised |-> FALSE, eta |-> None, requests |-> n, errors |-> 0]
        ELSE IF r.t = "transport"
        THEN IF attempt < max_retries
             THEN EtaLoop(script, attempt + 1, max_retries)
             ELSE [raised |-> FALSE, eta |-> None, requests |-> n, errors |-> 1]
        ELSE [raised |-> FALSE, eta |-> None, requests |-> n, errors |-> 0]

tool_eta_minutes(origin, dest, script) == EtaLoop(script, 0, EtaMaxRetries)

----------------------------------------------------------------------------
(* agents.py: FacilityFinderAgent *)

TopN == 5
EtaSentinel == 9999
DistanceSentinel == 999900   \* 9999 km in 0.01 km

Kinds(triage_level) ==
    IF triage_level \in {"emergency", "high"}
    THEN <<"hospital", "clinic">>
    ELSE <<"clinic", "hospital">>

SearchTerms(triage_level) ==
    IF triage_level \in {"emergency", "high"}
    THEN <<"hospital", "emergency hospital", "ER", "clinic">>
    ELSE <<"clinic", "hospital">>

\* the queries with one kind label per term only
Queries_TermsOnly(triage_level) ==
    LET ts == SearchTerms(triage_level)
        ks == Kinds(triage_level)
    IN  [n \in 1..Len(ts) |-> <<ts[n], ks[1]>>]

\* the (term, klabel) pairs in the order of the nested for loops
Queries(triage_level) ==
    LET ts == SearchTerms(triage_level)
        ks == Kinds(triage_level)
    IN  [n \in 1..(Len(ts) * Len(ks)) |->
            <<ts[((n - 1) \div Len(ks)) + 1], ks[((n - 1) % Len(ks)) + 1]>>]

\* a failed query discarding the candidates collected so far
CollectStep_ResetOnError(acc, res) ==
    [candidates |-> IF res.errors > 0 THEN <<>> ELSE acc.candidates \o res.facilities,
     errors |-> acc.errors + res.errors]

\* candidates.extend(res), with the errors counted by the tool
CollectStep(acc, res) ==
    [candidates |-> acc.candidates \o res.facilities,
     errors |-> acc.errors + res.errors]

\* the candidate-collection loop over the queries qs
RECURSIVE Collect(_, _, _, _, _)
Collect(lat, lon, qs, dirW, acc) ==
    IF qs = <<>> THEN acc
    ELSE Collect(lat, lon, Tail(qs), dirW,
                 CollectStep(acc,
                     tool_find_facilities(lat, lon, Head(qs)[1], Head(qs)[2],
                                          dirW[Head(qs)])))

DedupKey(f) ==
    <<Strip(SplitComma0(Strip(Lower(f.name)))), Round3(f.lat), Round3(f.lon)>>

\* the de-dup loop without the hospital preference
DedupStep_FirstWins(uniq, f) ==
    LET key == DedupKey(f)
        hit == {k \in 1..Len(uniq) : uniq[k].key = key}
    IN  IF hit = {} THEN Append(uniq, [key |-> key, f |-> f]) ELSE uniq

\* one iteration of the de-dup loop; uniq is the dict as the tuple of its
\* (key, value) entries in insertion order
DedupStep(uniq, f) ==
    LET key == DedupKey(f)
        hit == {k \in 1..Len(uniq) : uniq[k].key = key}
    IN  IF hit = {}
        THEN Append(uniq, [key |-> key, f |-> f])
        ELSE LET k == CHOOSE k \in hit : TRUE
             IN  IF f.kind = "hospital" /\ uniq[k].f.kind # "hospital"
                 THEN [uniq EXCEPT ![k].f = f]
                 ELSE uniq

\* the de-dup loop; Len(uniq) >= 0 always holds and has the dict evaluated
\* at every iteration, as the loop does, not in one chain at the end
RECURSIVE Dedup(_, _)
Dedup(uniq, candidates) ==
    IF Len(uniq) >= 0 /\ candidates = <<>> THEN uniq
    ELSE Dedup(DedupStep(uniq, Head(candidates)), Tail(candidates))

\* list(uniq.values())
DictValues(uniq) == [k \in 1..Len(uniq) |-> uniq[k].f]

\* the body of the distance/ETA loop for the facility f, e being the
\* outcome of tool_eta_minutes
AnnotateStep(acc, f, dist, e) ==
    [facilities |-> Append(acc.facilities,
                           [f EXCEPT !.distance_km = Some(dist),
                                     !.eta_minutes = e.eta]),
     errors |-> acc.errors + e.errors]

\* the distance/ETA loop
RECURSIVE Annotate(_, _, _, _, _)
Annotate(lat, lon, fs, etaW, acc) ==
    IF fs = <<>> THEN acc
    ELSE Annotate(lat, lon, Tail(fs), etaW,
                  AnnotateStep(acc, Head(fs),
                      haversine_km(lat, lon, Head(fs).lat, Head(fs).lon),
                      tool_eta_minutes(<<lat, lon>>, <<Head(fs).lat, Head(fs).lon>>,
                                       etaW[<<Head(fs).lat, Head(fs).lon>>])))

\* the key with the distance before the ETA
SortKey_DistanceFirst(x) ==
    <<IF x.distance_km # None THEN x.distance_km[1] ELSE DistanceSentinel,
      IF x.eta_minutes # None THEN x.eta_minutes[1] ELSE EtaSentinel>>

SortKey(x) ==
    <<IF x.eta_minutes # None THEN x.eta_minutes[1] ELSE EtaSentinel,
      IF x.distance_km # None THEN x.distance_km[1] ELSE DistanceSentinel>>

KeyLess(a, b) == a[1] < b[1] \/ (a[1] = b[1] /\ a[2] < b[2])

\* list.sort(key=...) is stable: x goes after every element not greater
RECURSIVE InsertSorted(_, _)
InsertSorted(sorted, x) ==
    IF sorted = <<>> THEN <<x>>
    ELSE IF KeyLess(SortKey(x), SortKey(Head(sorted)))
         THEN <<x>> \o sorted
         ELSE <<Head(sorted)>> \o InsertSorted(Tail(sorted), x)

RECURSIVE SortFacilities(_, _)
SortFacilities(sorted, fs) ==
    IF fs = <<>> THEN sorted
    ELSE SortFacilities(InsertSorted(sorted, Head(fs)), Tail(fs))

\* facilities[-5:]
Truncate_KeepLast(fs, n) == SubSeq(fs, IF Len(fs) < n THEN 1 ELSE Len(fs) - n + 1, Len(fs))

Truncate(fs, n) == SubSeq(fs, 1, IF Len(fs) < n THEN Len(fs) ELSE n)

\* the sort and the [:5] of run, with the METRICS increments: one tool
\* call for each query and for each de-duplicated facility
RankFacilities(nq, cerrors, a) ==
    [facilities |-> Truncate(SortFacilities(<<>>, a.facilities), TopN),
     tool_calls |-> nq + Len(a.facilities),
     errors |-> cerrors + a.errors]

\* the de-dup and the distance/ETA loop of run on the collected candidates
RankCandidates(lat, lon, nq, c, etaW) ==
    RankFacilities(nq, c.errors,
        Annotate(lat, lon, DictValues(Dedup(<<>>, c.candidates)), etaW,
                 [facilities |-> <<>>, errors |-> 0]))

\* FacilityFinderAgent.run: the ranked list and the increments of METRICS
FacilityFinderAgent_run(origin_lat, origin_lon, triage_level, dirW, etaW) ==
    RankCandidates(origin_lat, origin_lon, Len(Queries(triage_level)),
        Collect(origin_lat, origin_lon, Queries(triage_level), dirW,
                [candidates |-> <<>>, errors |-> 0]),
        etaW)

----------------------------------------------------------------------------
(* memory.py *)

MemoryBank == [preferred_city |-> None, last_facility_used |-> None,
               health_conditions |-> <<>>]

\* load_memory: the stored record, or the defaults when the file is absent
load_memory(file) == IF file = None THEN MemoryBank ELSE file[1]

\* save_memory: the new file contents; when the write fails the temporary
\* file is not renamed over MEM_PATH and the exception is re-raised
save_memory(file, mem, writable) ==
    IF writable THEN [raised |-> FALSE, file |-> Some(mem)]
    ELSE [raised |-> TRUE, file |-> file]

----------------------------------------------------------------------------
(* agents.py: CoordinatorAgent *)

PendingStatuses == {"PENDING_ACK", "PENDING_APPROVAL"}
TerminalStatuses == {"ACKNOWLEDGED", "CONFIRMED", "REJECTED"}
Statuses == {"not_started"} \cup PendingStatuses \cup TerminalStatuses

NoteAlertCreated == "Pre-arrival alert created. Hospital must acknowledge to confirm readiness."
NoteAppointmentCreated == "Appointment booking request created. Hospital must approve to confirm appointment."
NoteAcknowledged == "Pre-arrival alert acknowledged. Hospital is ready to receive patient."
NoteConfirmed == "Appointment booking confirmed."
NoteRejected == "Request rejected by hospital."

\* a call that returns, and a call that raises exc with a message made of
\* the fixed text `text` and the interpolated value `value`
Return(b) == [raised |-> FALSE, booking |-> b, error |-> None]
Raise(b, exc, text, value) ==
    [raised |-> TRUE, booking |-> b,
     error |-> Some([exc |-> exc, text |-> text, value |-> value])]

\* __init__
CoordinatorAgent ==
    [booking |-> BookingState, intake |-> None, triage |-> None,
     recommendation |-> None]

HandoffFlagOrder ==
    <<"unconscious", "breathing_difficulty", "chest_pain", "stroke_signs",
      "major_bleeding", "severe_allergy", "injury_trauma", "pregnancy">>

\* str(eta) if eta is not None else 'unknown'
EtaText(eta) == IF eta # None THEN ToString(eta[1]) ELSE "unknown"

build_handoff_packet(i, t, chosen, eta) ==
    [S |-> <<i.name, t.level>>,
     B |-> IF i.symptoms # <<>> THEN i.symptoms ELSE <<"N/A">>,
     A |-> LET flags == SelectSeq(HandoffFlagOrder, LAMBDA k : i[k])
           IN  IF flags # <<>> THEN flags ELSE <<"None reported">>,
     R |-> EtaText(eta),
     Destination |-> <<chosen.name, chosen.address>>]

\* the seeding block with only level emergency raising an alert
SeedBooking_EmergencyOnly(b, chosen, i, level, now) ==
    LET c == [b EXCEPT !.facility_name = Some(chosen.name),
                       !.requested_at = Some(now),
                       !.patient_name = Some(i.name),
                       !.triage_level = Some(level)]
    IN  IF level = "emergency"
        THEN [booking |-> [c EXCEPT !.request_type = "alert",
                                    !.status = "PENDING_ACK",
                                    !.note = Some(NoteAlertCreated)],
              booking_status |-> "PENDING_ACK"]
        ELSE [booking |-> [c EXCEPT !.request_type = "appointment",
                                    !.status = "PENDING_APPROVAL",
                                    !.note = Some(NoteAppointmentCreated)],
              booking_status |-> "PENDING_APPROVAL"]

\* the seeding block without its two assignments of request_type
SeedBooking_TypeUnset(b, chosen, i, level, now) ==
    LET c == [b EXCEPT !.facility_name = Some(chosen.name),
                       !.requested_at = Some(now),
                       !.patient_name = Some(i.name),
                       !.triage_level = Some(level)]
    IN  IF level \in {"emergency", "high"}
        THEN [booking |-> [c EXCEPT !.status = "PENDING_ACK",
                                    !.note = Some(NoteAlertCreated)],
              booking_status |-> "PENDING_ACK"]
        ELSE [booking |-> [c EXCEPT !.status = "PENDING_APPROVAL",
                                    !.note = Some(NoteAppointmentCreated)],
              booking_status |-> "PENDING_APPROVAL"]

\* the seeding block of run without the requested_at stamp
SeedBooking_NoRequestedAt(b, chosen, i, level, now) ==
    LET c == [b EXCEPT !.facility_name = Some(chosen.name),
                       !.patient_name = Some(i.name),
                       !.triage_level = Some(level)]
    IN  IF level \in {"emergency", "high"}
        THEN [booking |-> [c EXCEPT !.request_type = "alert",
                                    !.status = "PENDING_ACK",
                                    !.note = Some(NoteAlertCreated)],
              booking_status |-> "PENDING_ACK"]
        ELSE [booking |-> [c EXCEPT !.request_type = "appointment",
                                    !.status = "PENDING_APPROVAL",
                                    !.note = Some(NoteAppointmentCreated)],
              booking_status |-> "PENDING_APPROVAL"]

\* the seeding block of run (lines 175-191): the booking and booking_status
SeedBooking(b, chosen, i, level, now) ==
    LET c == [b EXCEPT !.facility_name = Some(chosen.name),
                       !.requested_at = Some(now),
                       !.patient_name = Some(i.name),
                       !.triage_level = Some(level)]
    IN  IF level \in {"emergency", "high"}
        THEN [booking |-> [c EXCEPT !.request_type = "alert",
                                    !.status = "PENDING_ACK",
                                    !.note = Some(NoteAlertCreated)],
              booking_status |-> "PENDING_ACK"]
        ELSE [booking |-> [c EXCEPT !.request_type = "appointment",
                                    !.status = "PENDING_APPROVAL",
                                    !.note = Some(NoteAppointmentCreated)],
              booking_status |-> "PENDING_APPROVAL"]

RunError(exc, text, value) == Some([exc |-> exc, text |-> text, value |-> value])

RouteNotes(chosen) ==
    <<"Nearest recommended:", chosen.name, "Estimated travel time:",
      EtaText(chosen.eta_minutes)>>

\* run storing the status the booking had before it was seeded
RunSaved_StatusBeforeSeed(self, i, t, facilities, seeded, m, sv) ==
    IF sv.raised
    THEN [self |-> [self EXCEPT !.booking = seeded.booking],
          file |-> sv.file, metrics |-> m, raised |-> TRUE,
          error |-> RunError("OSError", "memory_save_error", "")]
    ELSE [self |-> [self EXCEPT
                      !.booking = seeded.booking,
                      !.recommendation =
                          Some([triage |-> t,
                                top_choices |-> facilities,
                                route_notes |-> RouteNotes(facilities[1]),
                                handoff_packet |->
                                    build_handoff_packet(i, t, facilities[1],
                                        facilities[1].eta_minutes),
                                booking_status |-> self.booking.status])],
          file |-> sv.file, metrics |-> m, raised |-> FALSE, error |-> None]

\* run from "Update memory" on: sv is the outcome of save_memory
RunSaved(self, i, t, facilities, seeded, m, sv) ==
    IF sv.raised
    THEN [self |-> [self EXCEPT !.booking = seeded.booking],
          file |-> sv.file, metrics |-> m, raised |-> TRUE,
          error |-> RunError("OSError", "memory_save_error", "")]
    ELSE [self |-> [self EXCEPT
                      !.booking = seeded.booking,
                      !.recommendation =
                          Some([triage |-> t,
                                top_choices |-> facilities,
                                route_notes |-> RouteNotes(facilities[1]),
                                handoff_packet |->
                                    build_handoff_packet(i, t, facilities[1],
                                        facilities[1].eta_minutes),
                                booking_status |-> seeded.booking_status])],
          file |-> sv.file, metrics |-> m, raised |-> FALSE, error |-> None]

\* run from "chosen = facilities[0]" on
RunChosen(self, i, w, file, m, now, t, facilities) ==
    RunSaved(self, i, t, facilities,
        SeedBooking(self.booking, facilities[1], i, t.level, now), m,
        save_memory(file,
            [load_memory(file) EXCEPT
                !.preferred_city = Some(i.location_query),
                !.last_facility_used = Some(facilities[1].name)],
            w.writable))

\* run answering an empty ranking with a Recommendation without choices
RunRanked_ReturnsEmpty(self, i, w, file, m, now, t, ff) ==
    IF ff.facilities = <<>>
    THEN [self |-> [self EXCEPT
                      !.recommendation =
                          Some([triage |-> t, top_choices |-> <<>>,
                                route_notes |-> <<>>, handoff_packet |-> <<>>,
                                booking_status |-> self.booking.status])],
          file |-> file,
          metrics |-> AddMetrics(m, ff.tool_calls, 0, ff.errors),
          raised |-> FALSE, error |-> None]
    ELSE RunChosen(self, i, w, file, AddMetrics(m, ff.tool_calls, 0, ff.errors),
                   now, t, ff.facilities)

\* run from "if not facilities" on: ff is the outcome of the finder
RunRanked(self, i, w, file, m, now, t, ff) ==
    IF ff.facilities = <<>>
    THEN [self |-> self, file |-> file,
          metrics |-> AddMetrics(m, ff.tool_calls, 0, ff.errors),
          raised |-> TRUE,
          error |-> RunError("RuntimeError",
                       "No facilities found. Try a broader location query.", "")]
    ELSE RunChosen(self, i, w, file, AddMetrics(m, ff.tool_calls, 0, ff.errors),
                   now, t, ff.facilities)

\* run from "self.triage = triage" on: t is the outcome of TriageAgent.run
RunTriaged(self, i, w, file, m, now, g, t) ==
    RunRanked([self EXCEPT !.triage = Some(t.result)], i, w, file,
              AddMetrics(m, 0, t.llm_calls, t.errors), now, t.result,
              FacilityFinderAgent_run(g.lat, g.lon, t.result.level, w.dir, w.eta))

\* run recording the location as the preferred city before it re-raises
RunGeocoded_SavesCity(self, i, w, file, m, now, g) ==
    IF ~g.ok
    THEN [self |-> self,
          file |-> Some([load_memory(file) EXCEPT
                            !.preferred_city = Some(i.location_query)]),
          metrics |-> AddMetrics(m, 1, 0, g.errors + 1),
          raised |-> TRUE,
          error |-> RunError(g.exc, "Could not geocode location", i.location_query)]
    ELSE RunTriaged(self, i, w, file, AddMetrics(m, 1, 0, 0), now, g,
                    TriageAgent_run(i, w.llm))

\* run after the geocoding try block: g is the outcome of tool_geocode
RunGeocoded(self, i, w, file, m, now, g) ==
    IF ~g.ok
    THEN [self |-> self, file |-> file,
          metrics |-> AddMetrics(m, 1, 0, g.errors + 1),
          raised |-> TRUE,
          error |-> RunError(g.exc, "Could not geocode location", i.location_query)]
    ELSE RunTriaged(self, i, w, file, AddMetrics(m, 1, 0, 0), now, g,
                    TriageAgent_run(i, w.llm))

\* CoordinatorAgent.run on the agent `self` with intake i in the world w, at
\* time now: the agent, the preference file and METRICS afterwards, and
\* whether the call raised
CoordinatorAgent_run(self, i, w, file, m, now) ==
    RunGeocoded([self EXCEPT !.intake = Some(i)], i, w, file, m, now,
                tool_geocode(i.location_query, w.geo))

\* ack_alert without its check of the status
ack_alert_NoStatusCheck(b, now) ==
    IF b.request_type # "alert"
    THEN Raise(b, "ValueError", "Cannot acknowledge: request type is", b.request_type)
    ELSE Return([b EXCEPT !.status = "ACKNOWLEDGED",
                          !.acknowledged_at = Some(now),
                          !.note = Some(NoteAcknowledged)])

\* ack_alert stamping acknowledged_at before its two checks
ack_alert_StampsFirst(b, now) ==
    IF b.request_type # "alert"
    THEN Raise([b EXCEPT !.acknowledged_at = Some(now)], "ValueError",
               "Cannot acknowledge: request type is", b.request_type)
    ELSE IF b.status # "PENDING_ACK"
    THEN Raise([b EXCEPT !.acknowledged_at = Some(now)], "ValueError",
               "Cannot acknowledge: status is", b.status)
    ELSE Return([b EXCEPT !.status = "ACKNOWLEDGED",
                          !.acknowledged_at = Some(now),
                          !.note = Some(NoteAcknowledged)])

ack_alert(b, now) ==
    IF b.request_type # "alert"
    THEN Raise(b, "ValueError", "Cannot acknowledge: request type is", b.request_type)
    ELSE IF b.status # "PENDING_ACK"
    THEN Raise(b, "ValueError", "Cannot acknowledge: status is", b.status)
    ELSE Return([b EXCEPT !.status = "ACKNOWLEDGED",
                          !.acknowledged_at = Some(now),
                          !.note = Some(NoteAcknowledged)])

\* approve_appointment accepting either pending status of either type
approve_appointment_AnyPending(b, now) ==
    IF b.status \notin {"PENDING_ACK", "PENDING_APPROVAL"}
    THEN Raise(b, "ValueError", "Cannot approve: status is", b.status)
    ELSE Return([b EXCEPT !.status = "CONFIRMED",
                          !.approved_at = Some(now),
                          !.note = Some(NoteConfirmed)])

approve_appointment(b, now) ==
    IF b.request_type # "appointment"
    THEN Raise(b, "ValueError", "Cannot approve appointment: request type is",
               b.request_type)
    ELSE IF b.status # "PENDING_APPROVAL"
    THEN Raise(b, "ValueError", "Cannot approve: status is", b.status)
    ELSE Return([b EXCEPT !.status = "CONFIRMED",
                          !.approved_at = Some(now),
                          !.note = Some(NoteConfirmed)])

\* reject_request with `reason if reason is not None else default`
reject_request_KeepEmpty(b, reason) ==
    IF b.status \notin {"PENDING_ACK", "PENDING_APPROVAL"}
    THEN Raise(b, "ValueError", "Cannot reject: status is", b.status)
    ELSE Return([b EXCEPT !.status = "REJECTED",
                          !.note = IF reason # None
                                   THEN reason ELSE Some(NoteRejected)])

\* reject_request refusing only a booking that was never requested
reject_request_AnyRequested(b, reason) ==
    IF b.status = "not_started"
    THEN Raise(b, "ValueError", "Cannot reject: status is", b.status)
    ELSE Return([b EXCEPT !.status = "REJECTED",
                          !.note = IF reason # None /\ reason[1] # ""
                                   THEN reason ELSE Some(NoteRejected)])

\* reason is Optional[str]; `reason or default` takes the default for None
\* and for the empty string
reject_request(b, reason) ==
    IF b.status \notin {"PENDING_ACK", "PENDING_APPROVAL"}
    THEN Raise(b, "ValueError", "Cannot reject: status is", b.status)
    ELSE Return([b EXCEPT !.status = "REJECTED",
                          !.note = IF reason # None /\ reason[1] # ""
                                   THEN reason ELSE Some(NoteRejected)])

\* approve_booking sending every request to ack_alert
approve_booking_AlwaysAck(b, now) ==
    IF b.request_type \in {"alert", "appointment"} THEN ack_alert(b, now)
    ELSE Raise(b, "ValueError", "Unknown request type:", b.request_type)

approve_booking(b, now) ==
    IF b.request_type = "alert" THEN ack_alert(b, now)
    ELSE IF b.request_type = "appointment" THEN approve_appointment(b, now)
    ELSE Raise(b, "ValueError", "Unknown request type:", b.request_type)

----------------------------------------------------------------------------
(* The environment: intakes submitted and provider behaviours *)

Names == {"Test Patient"}
Locations == {"Karachi Pakistan"}

\* every combination of the eight flags with every symptom list
AllIntakes ==
    {IntakeAnswers(n, l, s, F) :
        n \in Names, l \in Locations, s \in SymptomLists, F \in SUBSET FlagNames}

\* the intakes submitted to the coordinator: one of each triage level, the
\* one of level medium being the "Mild fever" intake of TESTS
RunIntakes ==
    {IntakeAnswers("Test Patient", "Karachi Pakistan", <<"fever", "mild cough">>,
                   {"chest_pain", "pregnancy"}),
     IntakeAnswers("Test Patient", "Karachi Pakistan", <<"fever">>,
                   {"injury_trauma"}),
     IntakeAnswers("Test Patient", "Karachi Pakistan", <<"fever", "mild cough">>, {}),
     IntakeAnswers("Test Patient", "Karachi Pakistan", <<"fever">>, {})}

AllTerms == {"hospital", "emergency hospital", "ER", "clinic"}
AllKinds == {"hospital", "clinic"}

ItemA == Item(Some(<<"A", ",", " ", "x">>), Num(248612), Num(670011))
ItemA2 == Item(Some(<<"a", " ", ",", "y">>), Num(248608), Num(670013))
ItemB == Item(Some(<<"B">>), Num(248700), Num(670011))
ItemC == Item(Some(<<"C">>), Num(248652), Num(670052))

Rep3(r) == <<r, r, r>>

GeoUp == Rep3(GeoOk(OriginLat, OriginLon, "Karachi"))
GeoRetry == <<GeoTransport, GeoOk(OriginLat, OriginLon, "Karachi"), GeoTransport>>
GeoDown == Rep3(GeoTransport)
GeoNone == Rep3(GeoEmpty)

DirAll(items) == [q \in AllTerms \X AllKinds |-> Rep3(DirOk(items))]
DirDown == [q \in AllTerms \X AllKinds |-> Rep3(DirTransport)]
DirByTerm ==
    [q \in AllTerms \X AllKinds |->
        IF q[1] = "hospital" THEN Rep3(DirOk(<<ItemA, ItemB>>))
        ELSE IF q[1] = "clinic" /\ q[2] = "clinic"
        THEN <<DirTransport, DirOk(<<ItemC, ItemA2>>), DirTransport>>
        ELSE Rep3(DirTransport)]

\* the router answers with six seconds per 0.01 km
EtaUp == [p \in Lats \X Lons |-> <<EtaOk(6 * HaversineTable[p]), EtaStatus>>]
EtaDown == [p \in Lats \X Lons |-> <<EtaTransport, EtaTransport>>]

World(geo, dir, eta, llm, writable) ==
    [geo |-> geo, dir |-> dir, eta |-> eta, llm |-> llm, writable |-> writable]

Mock == [client |-> "mock"]
GeminiDown == [client |-> "gemini", raises |-> TRUE]

\* the worlds a coordinator run meets: all providers up; a geocoder that
\* needs a retry with the router and the narrative generator down; the
\* geocoder down; the geocoder without a result; the directory down; the
\* preference file not writable
Worlds ==
    {World(GeoUp, DirByTerm, EtaUp, Mock, TRUE),
     World(GeoRetry, DirAll(<<ItemB, ItemC>>), EtaDown, GeminiDown, TRUE),
     World(GeoDown, DirByTerm, EtaUp, Mock, TRUE),
     World(GeoNone, DirByTerm, EtaUp, Mock, TRUE),
     World(GeoUp, DirDown, EtaUp, Mock, TRUE),
     World(GeoUp, DirByTerm, EtaUp, Mock, FALSE)}

Reasons == {None, Some(""), Some("No beds available")}

----------------------------------------------------------------------------
(* The coordinator under calls of its methods *)

Outcome(op, r) == [op |-> op, raised |-> r.raised, error |-> r.error]

\* the server instances that serve the API; each has its own module globals
Instances == {"i1", "i2"}

\* the session ids process_intake has drawn in one server process
SessionIds == {"s1", "s2"}

\* api_server at import on every instance, and an empty database
InitApi ==
    /\ sessions = [p \in Instances |-> None]
    /\ coordinators = [s \in SessionIds |-> None]
    /\ triage_sessions = [s \in SessionIds |-> None]
    /\ bookings = [s \in SessionIds |-> None]
    /\ refused = {}
    /\ dbSession = None
    /\ dbBooking = None
    /\ booking_data = [p \in Instances |-> None]
    /\ response = None
    /\ succeeded = {}

Init ==
    /\ booking = CoordinatorAgent.booking
    /\ intake = CoordinatorAgent.intake
    /\ triage = CoordinatorAgent.triage
    /\ recommendation = CoordinatorAgent.recommendation
    /\ memFile = None
    /\ metrics = METRICS
    /\ clock = 1
    /\ runs = 0
    /\ last = [op |-> "__init__", raised |-> FALSE, error |-> None]
    /\ triageIn = IntakeAnswers("Test Patient", "Karachi Pakistan", <<>>, {})
    /\ llmIn = [client |-> "mock"]
    /\ triageOut = None
    /\ llmAgain = None
    /\ triageAgain = None
    /\ finderIn = None
    /\ finderOut = None
    /\ toolIn = None
    /\ toolOut = None
    /\ InitApi

\* time passes between two calls
Tick ==
    /\ clock < MaxClock
    /\ clock' = clock + 1
    /\ UNCHANGED <<booking, intake, triage, recommendation, memFile, metrics,
                   runs, last, triageVars, finderVars, toolVars, sessVars, apiVars>>

\* CoordinatorAgent.run, at most `limit` times on one agent
Run(i, w, limit) ==
    /\ runs < limit
    /\ LET self == [booking |-> booking, intake |-> intake, triage |-> triage,
                    recommendation |-> recommendation]
           r == CoordinatorAgent_run(self, i, w, memFile, metrics, clock)
       IN  /\ booking' = r.self.booking
           /\ intake' = r.self.intake
           /\ triage' = r.self.triage
           /\ recommendation' = r.self.recommendation
           /\ memFile' = r.file
           /\ metrics' = r.metrics
           /\ last' = Outcome("run", r)
    /\ runs' = runs + 1
    /\ UNCHANGED <<clock, triageVars, finderVars, toolVars, sessVars, apiVars>>

\* the API server calls run once on each coordinator it creates
RunAny == \E i \in RunIntakes, w \in Worlds : Run(i, w, MaxRuns)

\* a caller that reuses the coordinator for one more intake
RerunAny == \E i \in RunIntakes, w \in Worlds : Run(i, w, MaxRuns + 1)

AckAlert ==
    /\ LET r == ack_alert(booking, clock)
       IN  booking' = r.booking /\ last' = Outcome("ack_alert", r)
    /\ UNCHANGED <<intake, triage, recommendation, memFile, metrics, clock,
                   runs, triageVars, finderVars, toolVars, sessVars, apiVars>>

ApproveAppointment ==
    /\ LET r == approve_appointment(booking, clock)
       IN  booking' = r.booking /\ last' = Outcome("approve_appointment", r)
    /\ UNCHANGED <<intake, triage, recommendation, memFile, metrics, clock,
                   runs, triageVars, finderVars, toolVars, sessVars, apiVars>>

RejectRequest(reason) ==
    /\ LET r == reject_request(booking, reason)
       IN  booking' = r.booking /\ last' = Outcome("reject_request", r)
    /\ UNCHANGED <<intake, triage, recommendation, memFile, metrics, clock,
                   runs, triageVars, finderVars, toolVars, sessVars, apiVars>>

RejectAny == \E reason \in Reasons : RejectRequest(reason)

ApproveBooking ==
    /\ LET r == approve_booking(booking, clock)
       IN  booking' = r.booking /\ last' = Outcome("approve_booking", r)
    /\ UNCHANGED <<intake, triage, recommendation, memFile, metrics, clock,
                   runs, triageVars, finderVars, toolVars, sessVars, apiVars>>

Next ==
    \/ Tick
    \/ RunAny
    \/ AckAlert
    \/ ApproveAppointment
    \/ RejectAny
    \/ ApproveBooking

Spec == Init /\ [][Next]_vars

NextRerun ==
    \/ Tick
    \/ RerunAny
    \/ AckAlert
    \/ ApproveAppointment
    \/ RejectAny
    \/ ApproveBooking

SpecRerun == Init /\ [][NextRerun]_vars

\* the values request_type takes: the two of run, and one that is neither
\* (the field is an unvalidated str, restored from a String column)
RequestTypes == {"alert", "appointment", "transfer"}

\* the BookingStates a coordinator can hold when a transition is called on
\* it: every request_type with every status, as restored from the database
BookingStates ==
    {[BookingState EXCEPT !.request_type = t, !.status = st,
                          !.requested_at = r, !.note = n] :
        t \in RequestTypes, st \in Statuses, r \in {None, Some(1)},
        n \in {None, Some(NoteAlertCreated)}}

InitBooking ==
    /\ booking \in BookingStates
    /\ intake = CoordinatorAgent.intake
    /\ triage = CoordinatorAgent.triage
    /\ recommendation = CoordinatorAgent.recommendation
    /\ memFile = None
    /\ metrics = METRICS
    /\ clock = 1
    /\ runs = 0
    /\ last = [op |-> "__init__", raised |-> FALSE, error |-> None]
    /\ triageIn = IntakeAnswers("Test Patient", "Karachi Pakistan", <<>>, {})
    /\ llmIn = [client |-> "mock"]
    /\ triageOut = None
    /\ llmAgain = None
    /\ triageAgain = None
    /\ finderIn = None
    /\ finderOut = None
    /\ toolIn = None
    /\ toolOut = None
    /\ InitApi

\* the four transition methods called on any BookingState
NextBooking ==
    \/ Tick
    \/ AckAlert
    \/ ApproveAppointment
    \/ RejectAny
    \/ ApproveBooking

SpecBooking == InitBooking /\ [][NextBooking]_vars

----------------------------------------------------------------------------
(* api_server.py and db_service.py: the handlers of one session.  A        *)
(* handler is a coroutine without an await: it runs to completion on its   *)
(* instance, and the handlers of two instances are taken one after the     *)
(* other, which is one of the schedules of two concurrent requests.  The   *)
(* intake carries no patient_email, so no notification is created for the  *)
(* patient; the notifications table is read by no handler modelled here.   *)

\* an Optional[str] used as a condition; `empty` is the empty string in the
\* representation of the value ("" or the empty tuple of characters)
Truthy(o, empty) == o # None /\ o[1] # empty

\* an HTTP response: the handler, the status code and, for a transition
\* that succeeded, the booking status returned
Response(op, code, status) == [op |-> op, code |-> code, status |-> status]

\* save_triage_session: the columns the handlers read back
TriageSessionModel(b, level) ==
    [request_type |-> Some(b.request_type), booking_status |-> Some(b.status),
     facility_name |-> b.facility_name, triage_level |-> Some(level)]

\* the booking_data dict of process_intake, stored by save_booking and
\* appended to hospital_bookings and to patient_requests (the same object)
BookingData(b, now) ==
    [facility_name |-> b.facility_name, request_type |-> b.request_type,
     status |-> b.status,
     requested_at |-> IF b.requested_at # None THEN b.requested_at ELSE Some(now),
     approved_at |-> None, acknowledged_at |-> None, rejected_at |-> None,
     rejection_reason |-> None]

\* update_booking_status on the BookingModel row, if there is one
update_booking_status(row, status, approved_at, acknowledged_at, rejected_at, rejection_reason) ==
    IF row = None THEN None
    ELSE Some([row[1] EXCEPT
                 !.status = status,
                 !.approved_at = IF approved_at # None THEN approved_at ELSE @,
                 !.acknowledged_at =
                     IF acknowledged_at # None THEN acknowledged_at ELSE @,
                 !.rejected_at = IF rejected_at # None THEN rejected_at ELSE @,
                 !.rejection_reason =
                     IF Truthy(rejection_reason, "") THEN rejection_reason ELSE @])

\* the coordinator reconstructed from the TriageSessionModel row
RestoreCoordinator(row) ==
    [CoordinatorAgent EXCEPT
        !.booking.status =
            IF Truthy(row.booking_status, "") THEN row.booking_status[1] ELSE @,
        !.booking.request_type =
            IF Truthy(row.request_type, "") THEN row.request_type[1] ELSE @,
        !.booking.facility_name =
            IF Truthy(row.facility_name, <<>>) THEN row.facility_name ELSE @,
        !.booking.triage_level =
            IF Truthy(row.triage_level, "") THEN row.triage_level ELSE @]

\* sessions[session_id], or the coordinator loaded from the database when
\* the instance does not hold the session; None when there is no row
LoadSession(sess, row) ==
    IF sess # None THEN sess
    ELSE IF row = None THEN None ELSE Some(RestoreCoordinator(row[1]))

\* `x or datetime.now().isoformat()` for a timestamp of now_iso
OrNow(x, now) == IF x # None THEN x ELSE Some(now)

\* the in-memory dict of the session on one instance after a transition:
\* found through hospital_bookings or patient_requests
MirrorStatus(d, status, field, at) ==
    IF d = None THEN None
    ELSE Some([d[1] EXCEPT !.status = status, ![field] = at])

\* POST /api/intake on instance p, for the one session modelled: r is the
\* outcome of coordinator.run on a new CoordinatorAgent
IntakeStored(p, r) ==
    /\ sessions' = [sessions EXCEPT ![p] = Some(r.self)]
    /\ memFile' = r.file
    /\ metrics' = r.metrics
    /\ IF r.raised
       THEN /\ response' = Some(Response("intake", 500, None))
            /\ UNCHANGED <<dbSession, dbBooking, booking_data>>
       ELSE /\ dbSession' = Some(TriageSessionModel(r.self.booking,
                                                    r.self.triage[1].level))
            /\ response' = Some(Response("intake", 200,
                                         Some(r.self.booking.status)))
            /\ IF /\ Truthy(r.self.booking.facility_name, <<>>)
                  /\ r.self.booking.status \in {"PENDING_ACK", "PENDING_APPROVAL"}
               THEN /\ dbBooking' = Some(BookingData(r.self.booking, clock))
                    /\ booking_data' =
                           [booking_data EXCEPT
                               ![p] = Some(BookingData(r.self.booking, clock))]
               ELSE UNCHANGED <<dbBooking, booking_data>>

ApiIntake(p, i, w) ==
    /\ \A q \in Instances : sessions[q] = None
    /\ dbSession = None
    /\ IntakeStored(p, CoordinatorAgent_run(CoordinatorAgent, i, w, memFile,
                                            metrics, clock))
    /\ UNCHANGED <<booking, intake, triage, recommendation, clock, runs, last,
                   triageVars, finderVars, toolVars, sessVars, succeeded>>

\* a handler that answers without a state change
Answer(op, p, code) ==
    /\ response' = Some(Response(op, code, None))
    /\ UNCHANGED <<sessions, dbSession, dbBooking, booking_data, succeeded>>

\* a handler whose coordinator call raised ValueError: c is the coordinator
\* the handler looked up or loaded, which stays in sessions
Refused(op, p, c) ==
    /\ sessions' = [sessions EXCEPT ![p] = Some(c)]
    /\ response' = Some(Response(op, 400, None))
    /\ UNCHANGED <<dbSession, dbBooking, booking_data, succeeded>>

\* a handler whose coordinator call returned the booking b
Accepted(op, p, c, b, row, dict) ==
    /\ sessions' = [sessions EXCEPT ![p] = Some([c EXCEPT !.booking = b])]
    /\ dbBooking' = row
    /\ booking_data' = [booking_data EXCEPT ![p] = dict]
    /\ response' = Some(Response(op, 200, Some(b.status)))
    /\ succeeded' = succeeded \cup {Response(op, 200, Some(b.status))}
    /\ UNCHANGED dbSession

otherVars == <<booking, intake, triage, recommendation, memFile, metrics, clock,
               runs, last, triageVars, finderVars, toolVars, sessVars>>

\* POST /api/booking/ack-alert/{session_id}, after the sessions lookup
AckHandled(p, c, r) ==
    IF r.raised THEN Refused("ack_alert", p, c)
    ELSE Accepted("ack_alert", p, c, r.booking,
             update_booking_status(dbBooking, r.booking.status, None,
                 OrNow(r.booking.acknowledged_at, clock), None, None),
             MirrorStatus(booking_data[p], "ACKNOWLEDGED", "acknowledged_at",
                 OrNow(r.booking.acknowledged_at, clock)))

ApiAckAlert(p) ==
    /\ IF sessions[p] = None THEN Answer("ack_alert", p, 404)
       ELSE AckHandled(p, sessions[p][1],
                       ack_alert(sessions[p][1].booking, clock))
    /\ UNCHANGED otherVars

\* POST /api/booking/approve-appointment/{session_id}, c being the
\* coordinator found in sessions or loaded from the database
ApproveHandled(p, c, r) ==
    IF r.raised THEN Refused("approve_appointment", p, c)
    ELSE Accepted("approve_appointment", p, c, r.booking,
             update_booking_status(dbBooking, r.booking.status,
                 OrNow(r.booking.approved_at, clock), None, None, None),
             MirrorStatus(booking_data[p], "CONFIRMED", "approved_at",
                 OrNow(r.booking.approved_at, clock)))

ApproveLoaded(p, c) ==
    IF c = None THEN Answer("approve_appointment", p, 404)
    ELSE ApproveHandled(p, c[1], approve_appointment(c[1].booking, clock))

ApiApproveAppointment(p) ==
    /\ ApproveLoaded(p, LoadSession(sessions[p], dbSession))
    /\ UNCHANGED otherVars

\* POST /api/booking/approve/{session_id} (the first route registered for
\* the path): the database is not updated
ApproveBookingHandled(p, c, r) ==
    IF r.raised THEN Refused("approve_booking", p, c)
    ELSE Accepted("approve_booking", p, c, r.booking, dbBooking,
             IF booking_data[p] = None THEN None
             ELSE Some([booking_data[p][1] EXCEPT
                          !.status = r.booking.status,
                          !.acknowledged_at =
                              IF r.booking.acknowledged_at # None
                              THEN r.booking.acknowledged_at ELSE @,
                          !.approved_at =
                              IF r.booking.approved_at # None
                              THEN r.booking.approved_at ELSE @]))

ApiApproveBooking(p) ==
    /\ IF sessions[p] = None THEN Answer("approve_booking", p, 404)
       ELSE ApproveBookingHandled(p, sessions[p][1],
                approve_booking(sessions[p][1].booking, clock))
    /\ UNCHANGED otherVars

\* `reason or "Request rejected by hospital"`
RejectionReason(reason) ==
    IF Truthy(reason, "") THEN reason ELSE Some("Request rejected by hospital")

\* POST /api/booking/reject/{session_id} (the first route registered for
\* the path)
RejectHandled(p, c, r, reason) ==
    IF r.raised THEN Refused("reject_request", p, c)
    ELSE Accepted("reject_request", p, c, r.booking,
             update_booking_status(dbBooking, r.booking.status, None, None,
                 Some(clock), RejectionReason(reason)),
             IF booking_data[p] = None THEN None
             ELSE Some([booking_data[p][1] EXCEPT
                          !.status = "REJECTED",
                          !.rejected_at = Some(clock),
                          !.rejection_reason = RejectionReason(reason)]))

RejectLoaded(p, c, reason) ==
    IF c = None THEN Answer("reject_request", p, 404)
    ELSE RejectHandled(p, c[1], reject_request(c[1].booking, reason), reason)

ApiRejectRequest(p, reason) ==
    /\ RejectLoaded(p, LoadSession(sessions[p], dbSession), reason)
    /\ UNCHANGED otherVars

\* the intakes posted to the API: one of level emergency and the "Mild
\* fever" one; and the worlds they meet: all providers up, the geocoder
\* down, the preference file not writable
ApiIntakes ==
    {IntakeAnswers("Test Patient", "Karachi Pakistan", <<"fever", "mild cough">>,
                   {"chest_pain", "pregnancy"}),
     IntakeAnswers("Test Patient", "Karachi Pakistan", <<"fever", "mild cough">>, {})}

ApiWorlds ==
    {World(GeoUp, DirByTerm, EtaUp, Mock, TRUE),
     World(GeoDown, DirByTerm, EtaUp, Mock, TRUE),
     World(GeoUp, DirByTerm, EtaUp, Mock, FALSE)}

ApiIntakeAny == \E p \in Instances, i \in ApiIntakes, w \in ApiWorlds : ApiIntake(p, i, w)
ApiAckAlertAny == \E p \in Instances : ApiAckAlert(p)
ApiApproveAppointmentAny == \E p \in Instances : ApiApproveAppointment(p)
ApiApproveBookingAny == \E p \in Instances : ApiApproveBooking(p)
ApiRejectRequestAny == \E p \in Instances, reason \in Reasons : ApiRejectRequest(p, reason)

NextApi ==
    \/ Tick
    \/ ApiIntakeAny
    \/ ApiAckAlertAny
    \/ ApiApproveAppointmentAny
    \/ ApiApproveBookingAny
    \/ ApiRejectRequestAny

SpecApi == Init /\ [][NextApi]_vars

----------------------------------------------------------------------------
(* Two sessions of one server process.  Each session has the coordinator   *)
(* process_intake made for it; METRICS and the preference file belong to   *)
(* the process.  A handler runs to completion, so the requests of the two  *)
(* sessions are taken one after the other.                                 *)

\* POST /api/intake answered with session id s: a new CoordinatorAgent is
\* stored under s and run on the intake
SessionIntake(s, i, w) ==
    /\ coordinators[s] = None
    /\ LET r == CoordinatorAgent_run(CoordinatorAgent, i, w, memFile, metrics, clock)
       IN  /\ coordinators' = [coordinators EXCEPT ![s] = Some(r.self)]
           /\ memFile' = r.file
           /\ metrics' = r.metrics
    /\ UNCHANGED <<booking, intake, triage, recommendation, clock, runs, last,
                   triageVars, finderVars, toolVars, apiVars,
                   triage_sessions, bookings, refused>>

\* a transition request for session s: r is the outcome of the coordinator
\* method on the booking of the session
SessionTransition(s, r) ==
    /\ coordinators' = [coordinators EXCEPT ![s] = Some([@[1] EXCEPT !.booking = r.booking])]
    /\ UNCHANGED <<coordVars, metrics, triageVars, finderVars, toolVars, apiVars,
                   triage_sessions, bookings, refused>>

SessionAckAlert(s) ==
    /\ coordinators[s] # None
    /\ SessionTransition(s, ack_alert(coordinators[s][1].booking, clock))

SessionApproveAppointment(s) ==
    /\ coordinators[s] # None
    /\ SessionTransition(s, approve_appointment(coordinators[s][1].booking, clock))

SessionRejectRequest(s, reason) ==
    /\ coordinators[s] # None
    /\ SessionTransition(s, reject_request(coordinators[s][1].booking, reason))

SessionIntakeAny == \E s \in SessionIds, i \in ApiIntakes, w \in ApiWorlds : SessionIntake(s, i, w)
SessionAckAlertAny == \E s \in SessionIds : SessionAckAlert(s)
SessionApproveAppointmentAny == \E s \in SessionIds : SessionApproveAppointment(s)
SessionRejectRequestAny == \E s \in SessionIds, reason \in Reasons : SessionRejectRequest(s, reason)

NextSessions ==
    \/ Tick
    \/ SessionIntakeAny
    \/ SessionAckAlertAny
    \/ SessionApproveAppointmentAny
    \/ SessionRejectRequestAny

SpecSessions == Init /\ [][NextSessions]_vars

----------------------------------------------------------------------------
(* TriageAgent.run as a function of its argument *)

InitTriage ==
    /\ booking = CoordinatorAgent.booking
    /\ intake = CoordinatorAgent.intake
    /\ triage = CoordinatorAgent.triage
    /\ recommendation = CoordinatorAgent.recommendation
    /\ memFile = None
    /\ metrics = METRICS
    /\ clock = 1
    /\ runs = 0
    /\ last = [op |-> "__init__", raised |-> FALSE, error |-> None]
    /\ triageIn \in AllIntakes
    /\ llmIn \in LLMBehaviours
    /\ triageOut = None
    /\ llmAgain = None
    /\ triageAgain = None
    /\ finderIn = None
    /\ finderOut = None
    /\ toolIn = None
    /\ toolOut = None
    /\ InitApi

Classify ==
    /\ triageOut = None
    /\ LET r == TriageAgent_run(triageIn, llmIn)
       IN  /\ triageOut' = Some(r.result)
           /\ metrics' = AddMetrics(metrics, 0, r.llm_calls, r.errors)
    /\ UNCHANGED <<coordVars, triageIn, llmIn, llmAgain, triageAgain, finderVars, toolVars, sessVars,
                   apiVars>>

\* a second call of TriageAgent.run with the same intake, the narrative
\* generator behaving as b this time; the client is the one chosen when
\* the module was imported
ClassifyAgain(b) ==
    /\ triageOut # None
    /\ b.client = llmIn.client
    /\ triageAgain = None
    /\ LET r == TriageAgent_run(triageIn, b)
       IN  /\ triageAgain' = Some(r.result)
           /\ metrics' = AddMetrics(metrics, 0, r.llm_calls, r.errors)
    /\ llmAgain' = Some(b)
    /\ UNCHANGED <<coordVars, triageIn, llmIn, triageOut, finderVars, toolVars, sessVars, apiVars>>

ClassifyAgainAny == \E b \in LLMBehaviours : ClassifyAgain(b)

NextTriage == Classify \/ ClassifyAgainAny

SpecTriage == InitTriage /\ [][NextTriage]_vars

----------------------------------------------------------------------------
(* FacilityFinderAgent.run as a function of the triage level and of the    *)
(* answers of the directory and of the router                              *)

ItemD == Item(Some(<<"D">>), Num(248607), Num(670052))
ItemE == Item(Some(<<"E">>), Num(248607), Num(670300))
ItemF == Item(Some(<<"F">>), Num(248652), Num(670300))
ItemG == Item(Some(<<"G">>), Num(248700), Num(670300))
\* two places at the same distance
ItemP == Item(Some(<<"P">>), Num(248652), Num(670011))
ItemQ == Item(Some(<<"Q">>), Num(248652), Num(670013))
\* an item without a latitude, and one whose longitude is null
ItemBad == Item(Some(<<"B">>), Missing, Num(670011))
ItemNull == Item(Some(<<"B">>), Num(248700), Null)

\* the lists the directory answers a query with: more than TopN places;
\* two entries of one place; two places at one distance; a malformed item
\* the tool catches; a malformed item it raises on
ItemLists ==
    {<<ItemG, ItemB, ItemC, ItemD, ItemE, ItemF, ItemA>>,
     <<ItemA, ItemC, ItemA2>>,
     <<ItemQ, ItemB, ItemP>>,
     <<ItemC, ItemBad>>,
     <<ItemC, ItemNull>>}

\* the directory answering with items, except for the queries in `failing`
DirFailing(items, failing) ==
    [q \in AllTerms \X AllKinds |->
        IF q \in failing THEN Rep3(DirTransport) ELSE Rep3(DirOk(items))]

EtaStatusDown == [p \in Lats \X Lons |-> <<EtaStatus, EtaStatus>>]
EtaNoRoutesDown == [p \in Lats \X Lons |-> <<EtaNoRoutes, EtaNoRoutes>>]
EtaNoDurationDown == [p \in Lats \X Lons |-> <<EtaNoDuration, EtaNoDuration>>]
\* each kind of failure, by longitude
EtaMixedDown ==
    [p \in Lats \X Lons |->
        IF p[2] = 670011 THEN <<EtaTransport, EtaStatus>>
        ELSE IF p[2] = 670013 THEN <<EtaStatus, EtaTransport>>
        ELSE IF p[2] = 670052 THEN <<EtaNoRoutes, EtaNoRoutes>>
        ELSE <<EtaNoDuration, EtaNoDuration>>]
\* a route only to the places between 0.5 and 2 km, and the farther the
\* place the shorter the drive
EtaCross ==
    [p \in Lats \X Lons |->
        IF HaversineTable[p] <= 50 \/ HaversineTable[p] >= 200
        THEN <<EtaStatus, EtaStatus>>
        ELSE <<EtaOk(60 * (400 - HaversineTable[p])), EtaStatus>>]
\* drives of a week and more to the places within 1 km, no route beyond
EtaFar ==
    [p \in Lats \X Lons |->
        IF HaversineTable[p] >= 100 THEN <<EtaTransport, EtaTransport>>
        ELSE <<EtaOk(600000 + 60 * HaversineTable[p]), EtaStatus>>]
\* a drive of 9999 minutes to the places beyond 0.5 km, no route to the others
EtaAtSentinel ==
    [p \in Lats \X Lons |->
        IF HaversineTable[p] < 50 THEN <<EtaStatus, EtaStatus>>
        ELSE <<EtaOk(599940), EtaStatus>>]

RouterDown == {EtaDown, EtaStatusDown, EtaNoRoutesDown, EtaNoDurationDown, EtaMixedDown}
Routers == RouterDown \cup {EtaUp, EtaCross, EtaFar, EtaAtSentinel}

FinderLevels == {"emergency", "low"}

FinderInputs ==
    {[level |-> l, items |-> items, failing |-> failing, eta |-> eta] :
        l \in FinderLevels, items \in ItemLists,
        failing \in SUBSET (AllTerms \X AllKinds), eta \in Routers}

InitFinder ==
    /\ booking = CoordinatorAgent.booking
    /\ intake = CoordinatorAgent.intake
    /\ triage = CoordinatorAgent.triage
    /\ recommendation = CoordinatorAgent.recommendation
    /\ memFile = None
    /\ metrics = METRICS
    /\ clock = 1
    /\ runs = 0
    /\ last = [op |-> "__init__", raised |-> FALSE, error |-> None]
    /\ triageIn = IntakeAnswers("Test Patient", "Karachi Pakistan", <<>>, {})
    /\ llmIn = [client |-> "mock"]
    /\ triageOut = None
    /\ llmAgain = None
    /\ triageAgain = None
    /\ finderIn \in FinderInputs
    /\ finderOut = None
    /\ toolIn = None
    /\ toolOut = None
    /\ InitApi

\* the call FacilityFinderAgent().run(lat, lon, level) at the geocoded origin
FinderCall(in) ==
    FacilityFinderAgent_run(OriginLat, OriginLon, in.level,
                            DirFailing(in.items, in.failing), in.eta)

FindFacilities ==
    /\ finderOut = None
    /\ finderOut' = Some(FinderCall(finderIn).facilities)
    /\ metrics' = AddMetrics(metrics, FinderCall(finderIn).tool_calls, 0,
                             FinderCall(finderIn).errors)
    /\ UNCHANGED <<coordVars, triageVars, finderIn, toolVars, sessVars, apiVars>>

NextFinder == FindFacilities

SpecFinder == InitFinder /\ [][NextFinder]_vars

----------------------------------------------------------------------------
(* The three tools called on their own, each against a script of provider  *)
(* responses one longer than the number of requests the tool may issue     *)

ItemText == Item(Some(<<"B">>), NonNumeric, Num(670011))

GeoResponses ==
    {GeoTransport, GeoEmpty, GeoBad, GeoNull, GeoOk(OriginLat, OriginLon, "Karachi")}
DirResponses ==
    {DirTransport, DirOk(<<>>), DirOk(<<ItemA, ItemB>>), DirOk(<<ItemC, ItemBad>>),
     DirOk(<<ItemText>>), DirOk(<<ItemC, ItemNull>>)}
EtaResponses == {EtaTransport, EtaStatus, EtaNoRoutes, EtaNoDuration, EtaOk(336)}

ToolInputs ==
    {[tool |-> "geocode", script |-> sc] :
        sc \in [1..(GeocodeMaxRetries + 2) -> GeoResponses]}
    \cup {[tool |-> "find_facilities", script |-> sc] :
        sc \in [1..(FindMaxRetries + 2) -> DirResponses]}
    \cup {[tool |-> "eta", script |-> sc] :
        sc \in [1..(EtaMaxRetries + 2) -> EtaResponses]}

InitTools ==
    /\ booking = CoordinatorAgent.booking
    /\ intake = CoordinatorAgent.intake
    /\ triage = CoordinatorAgent.triage
    /\ recommendation = CoordinatorAgent.recommendation
    /\ memFile = None
    /\ metrics = METRICS
    /\ clock = 1
    /\ runs = 0
    /\ last = [op |-> "__init__", raised |-> FALSE, error |-> None]
    /\ triageIn = IntakeAnswers("Test Patient", "Karachi Pakistan", <<>>, {})
    /\ llmIn = [client |-> "mock"]
    /\ triageOut = None
    /\ llmAgain = None
    /\ triageAgain = None
    /\ finderIn = None
    /\ finderOut = None
    /\ toolIn \in ToolInputs
    /\ toolOut = None
    /\ InitApi

\* what the caller of a tool sees: whether it raised, what it returned, and
\* the number of requests it sent to the provider
ToolOutcome(raised, value, requests) ==
    [raised |-> raised, value |-> value, requests |-> requests]

GeocodeOutcome(r) ==
    ToolOutcome(~r.ok, IF r.ok THEN <<r.lat, r.lon, r.display>> ELSE <<>>, r.requests)

CallGeocode ==
    /\ toolIn.tool = "geocode"
    /\ toolOut = None
    /\ toolOut' = Some(GeocodeOutcome(tool_geocode("Karachi Pakistan", toolIn.script)))
    /\ metrics' = AddMetrics(metrics, 1, 0,
                             tool_geocode("Karachi Pakistan", toolIn.script).errors)
    /\ UNCHANGED <<coordVars, triageVars, finderVars, toolIn, sessVars, apiVars>>

FindOutcome(r) == ToolOutcome(r.raised, r.facilities, r.requests)

CallFindFacilities ==
    /\ toolIn.tool = "find_facilities"
    /\ toolOut = None
    /\ toolOut' = Some(FindOutcome(tool_find_facilities(OriginLat, OriginLon,
                                       "hospital", "hospital", toolIn.script)))
    /\ metrics' = AddMetrics(metrics, 1, 0,
                      IF tool_find_facilities(OriginLat, OriginLon, "hospital",
                                              "hospital", toolIn.script).raised
                      THEN 0
                      ELSE tool_find_facilities(OriginLat, OriginLon, "hospital",
                                                "hospital", toolIn.script).errors)
    /\ UNCHANGED <<coordVars, triageVars, finderVars, toolIn, sessVars, apiVars>>

EtaOutcome(r) == ToolOutcome(r.raised, r.eta, r.requests)

CallEtaMinutes ==
    /\ toolIn.tool = "eta"
    /\ toolOut = None
    /\ toolOut' = Some(EtaOutcome(tool_eta_minutes(Origin, Origin, toolIn.script)))
    /\ metrics' = AddMetrics(metrics, 1, 0,
                             tool_eta_minutes(Origin, Origin, toolIn.script).errors)
    /\ UNCHANGED <<coordVars, triageVars, finderVars, toolIn, sessVars, apiVars>>

NextTools == CallGeocode \/ CallFindFacilities \/ CallEtaMinutes

SpecTools == InitTools /\ [][NextTools]_vars

----------------------------------------------------------------------------
(* Properties of TriageAgent.run, under SpecTriage *)

NoRedFlag(i) == \A f \in RedFlagNames : ~i[f]

\* C1: an intake with at least one of the six red flags is classified
\* emergency, whatever injury_trauma, pregnancy and the symptom list are.
C1_RedFlagIsEmergency ==
    (triageOut # None /\ ~NoRedFlag(triageIn)) => triageOut[1].level = "emergency"

C1_Witness ==
    /\ triageOut # None
    /\ triageIn.severe_allergy /\ ~triageIn.chest_pain /\ ~triageIn.unconscious
    /\ triageIn.injury_trauma /\ triageIn.pregnancy
    /\ triageIn.symptoms = <<>>
    /\ triageOut[1].level = "emergency"

\* C2: an intake with no red flag and injury_trauma is classified high,
\* whatever the number of symptoms.
C2_TraumaIsHigh ==
    (triageOut # None /\ NoRedFlag(triageIn) /\ triageIn.injury_trauma)
        => triageOut[1].level = "high"

C2_Witness ==
    /\ triageOut # None
    /\ NoRedFlag(triageIn) /\ triageIn.injury_trauma
    /\ Len(triageIn.symptoms) >= 2
    /\ triageOut[1].level = "high"

----------------------------------------------------------------------------
(* Properties of FacilityFinderAgent.run, under SpecFinder *)

\* the candidates collected for an input, in the order of arrival
FinderCandidates(in) ==
    Collect(OriginLat, OriginLon, Queries(in.level),
            DirFailing(in.items, in.failing),
            [candidates |-> <<>>, errors |-> 0]).candidates

CandidateKeys(c) == {DedupKey(c[k]) : k \in 1..Len(c)}

\* the ranking key of the ranked facility f
EtaOrSentinel(f) == IF f.eta_minutes = None THEN 9999 ELSE f.eta_minutes[1]
KeyAtMost(f, g) ==
    \/ EtaOrSentinel(f) < EtaOrSentinel(g)
    \/ EtaOrSentinel(f) = EtaOrSentinel(g) /\ f.distance_km[1] <= g.distance_km[1]

\* C13: in every output of FacilityFinderAgent.run, each facility with a
\* non-null eta_minutes comes before every facility with a null eta_minutes,
\* for every ETA the route estimator can return.
C13_KnownEtaFirst ==
    finderOut # None =>
        \A a, b \in 1..Len(finderOut[1]) :
            (finderOut[1][a].eta_minutes # None /\ finderOut[1][b].eta_minutes = None)
                => a < b

\* C14 as stated: within the facilities with a known ETA and within the
\* facilities with a null ETA, the output is in ascending order of
\* distance_km.
C14_GroupsByDistance ==
    finderOut # None =>
        \A a, b \in 1..Len(finderOut[1]) :
            (a < b /\ (finderOut[1][a].eta_minutes = None)
                          = (finderOut[1][b].eta_minutes = None))
                => finderOut[1][a].distance_km[1] <= finderOut[1][b].distance_km[1]

\* C14 as amended: the facilities with a null ETA are in ascending order of
\* distance_km, and the facilities with a known ETA are in ascending order
\* of eta_minutes, those of equal ETA in ascending order of distance_km.
C14_GroupsByEtaThenDistance ==
    finderOut # None =>
        \A a, b \in 1..Len(finderOut[1]) :
            a < b =>
                /\ (finderOut[1][a].eta_minutes = None /\ finderOut[1][b].eta_minutes = None)
                       => finderOut[1][a].distance_km[1] <= finderOut[1][b].distance_km[1]
                /\ (finderOut[1][a].eta_minutes # None /\ finderOut[1][b].eta_minutes # None)
                       => \/ finderOut[1][a].eta_minutes[1] < finderOut[1][b].eta_minutes[1]
                          \/ /\ finderOut[1][a].eta_minutes[1] = finderOut[1][b].eta_minutes[1]
                             /\ finderOut[1][a].distance_km[1]
                                    <= finderOut[1][b].distance_km[1]

C14_Witness ==
    /\ finderOut # None
    /\ Len(finderOut[1]) = 5
    /\ finderOut[1][2].eta_minutes # None
    /\ finderOut[1][1].eta_minutes[1] < finderOut[1][2].eta_minutes[1]
    /\ finderOut[1][1].distance_km[1] > finderOut[1][2].distance_km[1]
    /\ finderOut[1][3].eta_minutes = None
    /\ finderOut[1][4].eta_minutes = None
    /\ finderOut[1][3].distance_km[1] < finderOut[1][4].distance_km[1]

\* the deduplicated candidates of an input with their distance and ETA
Annotated(in) ==
    Annotate(OriginLat, OriginLon,
             DictValues(Dedup(<<>>, FinderCandidates(in))), in.eta,
             [facilities |-> <<>>, errors |-> 0]).facilities

InOutput(f) == \E a \in 1..Len(finderOut[1]) : finderOut[1][a] = f

\* C15: FacilityFinderAgent.run returns min(5, n) of the n deduplicated
\* candidates, each once, and no candidate left out has a ranking key
\* (eta or sentinel, distance) strictly smaller than a facility returned.
C15_SmallestFive ==
    finderOut # None =>
        LET d == Annotated(finderIn)
        IN  /\ Len(finderOut[1]) = IF Len(d) < 5 THEN Len(d) ELSE 5
            /\ \A a, b \in 1..Len(finderOut[1]) :
                   a # b => finderOut[1][a] # finderOut[1][b]
            /\ \A a \in 1..Len(finderOut[1]) :
                   \E k \in 1..Len(d) : d[k] = finderOut[1][a]
            /\ \A k \in 1..Len(d) :
                   ~InOutput(d[k])
                       => \A a \in 1..Len(finderOut[1]) :
                              KeyAtMost(finderOut[1][a], d[k])

C15_Witness ==
    /\ finderOut # None
    /\ Len(Annotated(finderIn)) = 7
    /\ Len(finderOut[1]) = 5
    /\ finderIn.eta = EtaUp
    /\ finderOut[1][5].eta_minutes = Some(29)

\* what identifies a candidate: every field but distance_km and eta_minutes
Core(f) == <<f.name, f.address, f.lat, f.lon, f.kind>>

\* the positions in the sequence fs of the entries with the key k
WithKey(fs, k) == {j \in 1..Len(fs) : DedupKey(fs[j]) = k}

FirstOf(S) == CHOOSE j \in S : \A i \in S : j <= i

\* C16: the candidates that share a key (normalized name, latitude and
\* longitude rounded to 3 decimals) collapse to one entry of the output; it
\* is a hospital if any of them is, whatever the order of arrival, and the
\* first of them seen otherwise.
C16_Dedup ==
    finderOut # None =>
        LET c == FinderCandidates(finderIn)
            keys == CandidateKeys(c)
        IN  \A k \in keys :
                /\ Cardinality(WithKey(finderOut[1], k)) <= 1
                /\ Cardinality(keys) <= 5 => Cardinality(WithKey(finderOut[1], k)) = 1
                /\ \A a \in WithKey(finderOut[1], k) :
                       IF \E j \in WithKey(c, k) : c[j].kind = "hospital"
                       THEN finderOut[1][a].kind = "hospital"
                       ELSE Core(finderOut[1][a]) = Core(c[FirstOf(WithKey(c, k))])

C16_Witness ==
    /\ finderOut # None
    /\ finderIn.level = "low"
    /\ finderIn.failing = {}
    /\ Len(FinderCandidates(finderIn)) = 12
    /\ FinderCandidates(finderIn)[1].kind = "clinic"
    /\ Len(finderOut[1]) = 2
    /\ finderOut[1][1].kind = "hospital"
    /\ finderOut[1][1].address = <<"A", ",", " ", "x">>

\* the directory answering the queries in `failing` with an empty list
DirSkipping(items, failing) ==
    [q \in AllTerms \X AllKinds |->
        IF q \in failing THEN Rep3(DirOk(<<>>)) ELSE Rep3(DirOk(items))]

QuerySet(level) == {Queries(level)[n] : n \in 1..Len(Queries(level))}

\* C17: a directory failure for any subset of the queries does not abort
\* FacilityFinderAgent.run: the output is the ranking of what the other
\* queries returned, as if each failed query had answered with no item, and
\* it is the empty list when every query fails.
C17_FailedQueriesSkipped ==
    finderOut # None =>
        /\ finderOut[1] =
               FacilityFinderAgent_run(OriginLat, OriginLon, finderIn.level,
                   DirSkipping(finderIn.items, finderIn.failing),
                   finderIn.eta).facilities
        /\ QuerySet(finderIn.level) \subseteq finderIn.failing
               => finderOut[1] = <<>>

C17_Witness ==
    /\ finderOut # None
    /\ finderIn.level = "emergency"
    /\ finderIn.failing =
           {<<"hospital", "hospital">>, <<"ER", "clinic">>, <<"clinic", "clinic">>}
    /\ Len(finderOut[1]) = 5
    /\ metrics.errors = 3

\* C18: when the route estimator is unavailable for every candidate
\* (provider error, non-200 response, no route or no duration), the finder
\* still returns the candidates, each with eta_minutes None, in ascending
\* order of distance_km.
C18_RouterDown ==
    (finderOut # None /\ finderIn.eta \in RouterDown) =>
        /\ FinderCandidates(finderIn) # <<>> => finderOut[1] # <<>>
        /\ \A a \in 1..Len(finderOut[1]) : finderOut[1][a].eta_minutes = None
        /\ \A a, b \in 1..Len(finderOut[1]) :
               a < b => finderOut[1][a].distance_km[1] <= finderOut[1][b].distance_km[1]

C18_Witness ==
    /\ finderOut # None
    /\ finderIn.eta = EtaMixedDown
    /\ Len(finderOut[1]) = 5
    /\ finderOut[1][1].distance_km = Some(6)
    /\ finderOut[1][5].distance_km = Some(292)

----------------------------------------------------------------------------
(* Properties of CoordinatorAgent, under Spec and SpecRerun *)

\* the "Mild fever (low)" intake of TESTS
MildFever ==
    IntakeAnswers("Test Patient", "Karachi Pakistan", <<"fever", "mild cough">>, {})

Returned(op) == last.op = op /\ ~last.raised
Raised(op) == last.op = op /\ last.raised

\* C4: the intake with no flag and the symptoms "fever" and "mild cough" is
\* classified low, and the coordinator run on it seeds an appointment in
\* PENDING_APPROVAL.
C4_MildFeverIsLow ==
    (Returned("run") /\ intake = Some(MildFever))
        => /\ triage[1].level = "low"
           /\ booking.request_type = "appointment"
           /\ booking.status = "PENDING_APPROVAL"

\* C5: when run returns, the booking is an alert in PENDING_ACK if the level
\* is emergency or high and an appointment in PENDING_APPROVAL if it is
\* medium or low; requested_at is set and facility_name is the name of the
\* first of top_choices.
C5_SeededByLevel ==
    Returned("run")
        => /\ triage[1].level \in {"emergency", "high", "medium", "low"}
           /\ IF triage[1].level \in {"emergency", "high"}
              THEN booking.request_type = "alert" /\ booking.status = "PENDING_ACK"
              ELSE /\ booking.request_type = "appointment"
                   /\ booking.status = "PENDING_APPROVAL"
           /\ booking.requested_at # None
           /\ booking.facility_name = Some(recommendation[1].top_choices[1].name)

C5_Witness ==
    /\ Returned("run")
    /\ triage[1].level = "high"
    /\ booking.request_type = "alert" /\ booking.status = "PENDING_ACK"
    /\ booking.requested_at # None
    /\ booking.facility_name = Some(<<"C">>)
    /\ recommendation[1].top_choices[1].eta_minutes = None

\* C6: ack_alert succeeds only on an alert in PENDING_ACK, which it moves to
\* ACKNOWLEDGED with acknowledged_at stamped; in every other state it raises
\* an error that names the current request_type or status.
C6_AckAlertGuard ==
    [][AckAlert =>
        IF booking.request_type = "alert" /\ booking.status = "PENDING_ACK"
        THEN /\ ~last'.raised
             /\ booking'.status = "ACKNOWLEDGED"
             /\ booking'.acknowledged_at = Some(clock)
        ELSE /\ last'.raised
             /\ booking'.status = booking.status
             /\ last'.error[1].value \in {booking.request_type, booking.status}]_vars

C6_Witness ==
    /\ Raised("ack_alert")
    /\ booking.request_type = "appointment"
    /\ booking.status = "PENDING_APPROVAL"
    /\ last.error[1].value = "appointment"

\* C7: approve_appointment succeeds only on an appointment in
\* PENDING_APPROVAL, which it moves to CONFIRMED with approved_at stamped; in
\* every other state it raises an error.
C7_ApproveGuard ==
    [][ApproveAppointment =>
        IF booking.request_type = "appointment" /\ booking.status = "PENDING_APPROVAL"
        THEN /\ ~last'.raised
             /\ booking'.status = "CONFIRMED"
             /\ booking'.approved_at = Some(clock)
        ELSE /\ last'.raised
             /\ booking'.status = booking.status]_vars

C7_Witness ==
    /\ Raised("approve_appointment")
    /\ booking.request_type = "alert"
    /\ booking.status = "PENDING_ACK"

\* C8: reject_request succeeds exactly from PENDING_ACK and PENDING_APPROVAL,
\* setting the status to REJECTED and the note to the reason given, or to
\* the default text when the reason is omitted or empty; from every other
\* status it raises an error.
C8_RejectGuard ==
    [][\A reason \in Reasons :
        RejectRequest(reason) =>
            IF booking.status \in {"PENDING_ACK", "PENDING_APPROVAL"}
            THEN /\ ~last'.raised
                 /\ booking'.status = "REJECTED"
                 /\ booking'.note =
                        IF reason \in {None, Some("")}
                        THEN Some("Request rejected by hospital.") ELSE reason
            ELSE /\ last'.raised
                 /\ booking'.status = booking.status]_vars

C8_Witness ==
    /\ Returned("reject_request")
    /\ booking.status = "REJECTED"
    /\ booking.request_type = "appointment"
    /\ booking.note = Some("Request rejected by hospital.")

\* C9: ACKNOWLEDGED, CONFIRMED and REJECTED are absorbing under ack_alert,
\* approve_appointment, reject_request and approve_booking.
C9_TerminalAbsorbing ==
    [][(/\ booking.status \in {"ACKNOWLEDGED", "CONFIRMED", "REJECTED"}
        /\ (AckAlert \/ ApproveAppointment \/ RejectAny \/ ApproveBooking))
            => booking'.status = booking.status]_vars

C9_Witness ==
    /\ booking.status = "ACKNOWLEDGED"
    /\ Raised("reject_request")

StatusRank(st) ==
    IF st = "not_started" THEN 0
    ELSE IF st \in {"PENDING_ACK", "PENDING_APPROVAL"} THEN 1 ELSE 2

\* C10: the status never re-enters an earlier state: no call, run on an
\* already seeded coordinator included, takes a terminal status back to a
\* pending one or one pending status to the other.
C10_NoReseed ==
    [][/\ StatusRank(booking'.status) >= StatusRank(booking.status)
       /\ (StatusRank(booking.status) = 1 /\ StatusRank(booking'.status) = 1)
              => booking'.status = booking.status]_vars

\* C11: the two lifecycles are disjoint: in every reachable state the status
\* PENDING_ACK or ACKNOWLEDGED goes with request_type alert and the status
\* PENDING_APPROVAL or CONFIRMED with request_type appointment; and no call
\* of ack_alert, approve_appointment, reject_request or approve_booking
\* changes request_type.
C11_DisjointLifecycles ==
    /\ [](/\ booking.status \in {"PENDING_ACK", "ACKNOWLEDGED"}
               => booking.request_type = "alert"
          /\ booking.status \in {"PENDING_APPROVAL", "CONFIRMED"}
               => booking.request_type = "appointment")
    /\ [][(AckAlert \/ ApproveAppointment \/ RejectAny \/ ApproveBooking)
              => booking'.request_type = booking.request_type]_vars

C11_Witness ==
    /\ Returned("approve_booking")
    /\ booking.status = "CONFIRMED"
    /\ booking.request_type = "appointment"

----------------------------------------------------------------------------
(* Properties of the API handlers, under SpecApi *)

Won(op) == {r \in succeeded : r.op = op}

\* C12: of an acknowledge (or approve) request and a reject request for the
\* same session, at most one performs its transition: they never both
\* succeed, and the status in the database is the one set by the call that
\* succeeded.
C12_OneTransitionWins ==
    /\ Won("reject_request") # {}
           => Won("ack_alert") = {} /\ Won("approve_appointment") = {}
    /\ \A r \in Won("ack_alert") \cup Won("approve_appointment")
                 \cup Won("reject_request") :
           dbBooking # None => Some(dbBooking[1].status) = r.status


----------------------------------------------------------------------------
(* Properties of the failures of CoordinatorAgent.run, under Spec *)

\* the geocoder gives no location for the intake i in the world w
GeocodingFails(i, w) == ~tool_geocode(i.location_query, w.geo).ok

\* the geocoder gives a location and the ranker returns the empty list
RankerEmpty(i, w) ==
    /\ tool_geocode(i.location_query, w.geo).ok
    /\ FacilityFinderAgent_run(tool_geocode(i.location_query, w.geo).lat,
                               tool_geocode(i.location_query, w.geo).lon,
                               TriageAgent_run(i, w.llm).result.level,
                               w.dir, w.eta).facilities = <<>>

\* the step is a call of run on the intake i: run counts the call and
\* stores the intake before anything else
RunStep(i) == runs' = runs + 1 /\ intake' = Some(i)

GeocodeError(i) == RunError("ValueError", "Could not geocode location", i.location_query)
NoFacilitiesError ==
    RunError("RuntimeError", "No facilities found. Try a broader location query.", "")

\* C19: when geocoding fails, CoordinatorAgent.run raises the geocoding
\* error to its caller and runs no later stage: the only tool call counted
\* is the geocoding call (no directory or routing query), no triage result
\* and no recommendation are stored, the preference file is not written and
\* the booking is left as it was (not_started on a new coordinator).
C19_GeocodeFailureStops ==
    [][\A i \in RunIntakes, w \in Worlds :
          (RunStep(i) /\ GeocodingFails(i, w) /\ Run(i, w, MaxRuns)) =>
              /\ last'.raised /\ last'.error = GeocodeError(i)
              /\ metrics'.tool_calls = metrics.tool_calls + 1
              /\ metrics'.llm_calls = metrics.llm_calls
              /\ triage' = triage
              /\ recommendation' = recommendation
              /\ memFile' = memFile
              /\ booking' = booking
              /\ booking.status = "not_started" => booking'.status = "not_started"]_vars

C19_Witness ==
    /\ Raised("run")
    /\ last.error = GeocodeError(intake[1])
    /\ metrics.tool_calls = 1
    /\ metrics.errors = 2
    /\ triage = None /\ recommendation = None
    /\ memFile = None
    /\ booking.status = "not_started"

\* C20: when the ranker returns the empty list, CoordinatorAgent.run raises
\* the no-facilities error, stores and returns no Recommendation, writes no
\* preference and leaves the booking as it was (not_started on a new
\* coordinator).
C20_NoFacilitiesStops ==
    [][\A i \in RunIntakes, w \in Worlds :
          (RunStep(i) /\ RankerEmpty(i, w) /\ Run(i, w, MaxRuns)) =>
              /\ last'.raised /\ last'.error = NoFacilitiesError
              /\ recommendation' = recommendation
              /\ memFile' = memFile
              /\ booking' = booking
              /\ booking.status = "not_started" => booking'.status = "not_started"]_vars

C20_Witness ==
    /\ Raised("run")
    /\ last.error = NoFacilitiesError
    /\ triage # None
    /\ metrics.tool_calls > 1
    /\ recommendation = None
    /\ memFile = None
    /\ booking.status = "not_started"


----------------------------------------------------------------------------
(* Properties of the preference update of CoordinatorAgent.run, under Spec *)

\* the run reaches "Update memory" and the preference file cannot be written
PreferenceWriteFails(i, w) ==
    /\ ~w.writable
    /\ ~GeocodingFails(i, w)
    /\ ~RankerEmpty(i, w)

\* C21: the preference update is best-effort: when persisting the
\* preference record fails, CoordinatorAgent.run still returns the
\* Recommendation, with the booking seeded.
C21_PreferenceBestEffort ==
    [][\A i \in RunIntakes, w \in Worlds :
          (RunStep(i) /\ PreferenceWriteFails(i, w) /\ Run(i, w, MaxRuns)) =>
              /\ ~last'.raised
              /\ recommendation' # None
              /\ booking'.status \in PendingStatuses]_vars


----------------------------------------------------------------------------
(* Properties of the narrative generator in TriageAgent.run, under         *)
(* SpecTriage                                                              *)

\* the generator raises, or no generator is configured (no API key: the
\* mock client stands in)
GeneratorDown(b) == b.client = "mock" \/ b.raises

\* the result made of the templates of the branch that fires for i
BranchResult(i) ==
    TriageResult(TriageBranch(i)[1], <<TriageBranch(i)[2]>>, TriageBranch(i)[3],
                 SafetyNote)

\* C22: when the narrative generator raises or is unavailable,
\* TriageAgent.run returns normally, the explanation is omitted, and level,
\* reason, recommended_action and safety_note are those of the branch that
\* fired.
C22_GeneratorDownOmitted ==
    /\ (triageOut # None /\ GeneratorDown(llmIn))
           => triageOut[1] = BranchResult(triageIn)
    /\ (triageAgain # None /\ GeneratorDown(llmAgain[1]))
           => triageAgain[1] = BranchResult(triageIn)

\* C23: two calls of TriageAgent.run with the same intake give the same
\* level, reason and recommended_action, whatever the narrative generator
\* does on each call (different text, empty text, an error).
C23_SameStructuredFields ==
    triageAgain # None =>
        /\ triageAgain[1].level = triageOut[1].level
        /\ triageAgain[1].reason = triageOut[1].reason
        /\ triageAgain[1].recommended_action = triageOut[1].recommended_action

\* C24: every TriageResult returned by TriageAgent.run carries the same
\* constant, non-empty safety_note, whatever the level and the generator.
C24_ConstantSafetyNote ==
    /\ SafetyNote # ""
    /\ triageOut # None => triageOut[1].safety_note = SafetyNote
    /\ triageAgain # None => triageAgain[1].safety_note = SafetyNote

C24_Witness ==
    /\ triageOut # None /\ triageAgain # None
    /\ triageOut[1].level = "low"
    /\ llmIn.client = "gemini" /\ llmIn.raises
    /\ llmAgain[1].client = "gemini" /\ ~llmAgain[1].raises
    /\ triageAgain[1].reason # triageOut[1].reason
    /\ triageAgain[1].safety_note = triageOut[1].safety_note


----------------------------------------------------------------------------
(* Properties of the transition methods on any BookingState, under         *)
(* SpecBooking                                                             *)

SameOutcome(r) ==
    /\ booking' = r.booking
    /\ last'.raised = r.raised
    /\ last'.error = r.error

\* C25: approve_booking is not a behaviour of its own: in every booking
\* state it ends as ack_alert does when request_type is "alert" and as
\* approve_appointment does when it is "appointment" (same resulting state
\* or same failure), and for any other request_type it fails and leaves the
\* state unchanged.
C25_ApproveBookingDispatches ==
    [][ApproveBooking =>
          /\ booking.request_type = "alert" => SameOutcome(ack_alert(booking, clock))
          /\ booking.request_type = "appointment"
                 => SameOutcome(approve_appointment(booking, clock))
          /\ booking.request_type \notin {"alert", "appointment"}
                 => last'.raised /\ booking' = booking]_vars

C25_Witness ==
    /\ Raised("approve_booking")
    /\ booking.request_type = "appointment"
    /\ booking.status = "PENDING_ACK"
    /\ last.error[1].text = "Cannot approve: status is"

\* C30: a failed transition changes nothing: whenever ack_alert,
\* approve_appointment, reject_request or approve_booking raises, every
\* field of the BookingState is as it was before the call.
C30_FailedTransitionNoChange ==
    [][((AckAlert \/ ApproveAppointment \/ RejectAny \/ ApproveBooking)
           /\ last'.raised) => booking' = booking]_vars

C30_Witness ==
    /\ Raised("ack_alert")
    /\ booking.request_type = "alert"
    /\ booking.status = "ACKNOWLEDGED"
    /\ booking.acknowledged_at = Some(1)
    /\ clock = 2


----------------------------------------------------------------------------
(* Properties of the tools, under SpecTools *)

\* the first n responses of the script are all of a kind the tool retries
AllRetried(script, n, kinds) == \A k \in 1..n : script[k].t \in kinds

\* C26: every provider call ends after a bounded number of attempts:
\* tool_geocode sends at most 3 requests, tool_find_facilities at most 3 and
\* tool_eta_minutes at most 2; when every attempt fails, geocode raises,
\* the facility search returns the empty list and routing returns None.
C26_BoundedAttempts ==
    toolOut # None =>
        /\ toolIn.tool = "geocode" =>
               /\ toolOut[1].requests <= 3
               /\ AllRetried(toolIn.script, 3, {"transport"})
                      => toolOut[1].requests = 3 /\ toolOut[1].raised
        /\ toolIn.tool = "find_facilities" =>
               /\ toolOut[1].requests <= 3
               /\ AllRetried(toolIn.script, 3, {"transport"})
                      => /\ toolOut[1].requests = 3
                         /\ ~toolOut[1].raised
                         /\ toolOut[1].value = <<>>
        /\ toolIn.tool = "eta" =>
               /\ toolOut[1].requests <= 2
               /\ AllRetried(toolIn.script, 2, {"transport", "status"})
                      => /\ toolOut[1].requests = 2
                         /\ ~toolOut[1].raised
                         /\ toolOut[1].value = None

C26_Witness ==
    /\ toolOut # None
    /\ toolIn.tool = "find_facilities"
    /\ AllRetried(toolIn.script, 3, {"transport"})
    /\ toolIn.script[4] = DirOk(<<ItemA, ItemB>>)
    /\ toolOut[1].requests = 3
    /\ toolOut[1].value = <<>>

\* the response the tool call ended on
LastResponse == toolIn.script[toolOut[1].requests]

\* C27: tool_find_facilities never raises: whatever the provider does
\* (transport error on every attempt, error status, empty body, an item
\* with a missing or non-numeric lat/lon) it returns a list, empty on
\* failure.
C27_FindNeverRaises ==
    (toolOut # None /\ toolIn.tool = "find_facilities") =>
        /\ ~toolOut[1].raised
        /\ LastResponse \notin {DirOk(<<>>), DirOk(<<ItemA, ItemB>>)}
               => toolOut[1].value = <<>>

\* C28: tool_eta_minutes never raises: it returns None after a transport
\* error or a non-200 status on every attempt, for a response without
\* routes and for a route without duration, and it returns an integer
\* number of minutes only for a 200 response whose first route has a
\* duration.
C28_EtaNoneOrMinutes ==
    (toolOut # None /\ toolIn.tool = "eta") =>
        /\ ~toolOut[1].raised
        /\ LastResponse.t # "ok" => toolOut[1].value = None
        /\ LastResponse.t = "ok" =>
               /\ toolOut[1].value = Some(RoundMinutes(LastResponse.seconds))
               /\ toolOut[1].value[1] \in Nat
        /\ toolOut[1].value # None => LastResponse.t = "ok"

C28_Witness ==
    /\ toolOut # None
    /\ toolIn.tool = "eta"
    /\ toolIn.script[1] = EtaStatus
    /\ toolIn.script[2] = EtaOk(336)
    /\ toolOut[1].requests = 2
    /\ toolOut[1].value = Some(6)

----------------------------------------------------------------------------
(* Properties of two sessions, under SpecSessions *)

\* the step is the pipeline run of session s
SessionRunStep(s) == coordinators[s] = None /\ coordinators'[s] # None

\* C29: pipeline runs of different sessions share no mutable state other
\* than each session's own BookingState: the run of one session writes
\* nothing that a run or a request of another session reads or writes,
\* that is, it leaves the coordinators of the other sessions, the
\* preference file and the counters as they were.
C29_SessionsShareNothing ==
    [][\A s \in SessionIds :
          SessionRunStep(s) =>
              /\ \A t \in SessionIds \ {s} : coordinators'[t] = coordinators[t]
              /\ memFile' = memFile
              /\ metrics' = metrics]_vars

----------------------------------------------------------------------------
(* Properties of the coordinator's timestamps and of its Recommendation,   *)
(* under Spec                                                              *)

EmbeddedBooking == booking

\* C36: the booking_status field of the Recommendation kept by the
\* coordinator equals the status of its embedded booking in every reachable
\* state, including after ack_alert, approve_appointment and
\* reject_request.
C36_BookingStatusInSync ==
    recommendation # None =>
        recommendation[1].booking_status = EmbeddedBooking.status

\* C36, amended: booking_status equals the status of the embedded booking
\* when run returns, and no other call changes the Recommendation, so after
\* a transition booking_status still holds the seeded status while the
\* embedded booking holds the new one.
C36_BookingStatusSeeded ==
    [][/\ (runs' = runs + 1 /\ ~last'.raised) =>
              /\ recommendation' # None
              /\ recommendation'[1].booking_status = EmbeddedBooking'.status
       /\ runs' = runs => recommendation' = recommendation]_vars

C36_Witness ==
    /\ recommendation # None
    /\ recommendation[1].booking_status = "PENDING_ACK"
    /\ EmbeddedBooking.status = "ACKNOWLEDGED"
    /\ last.op = "ack_alert"

----------------------------------------------------------------------------
(* The pregnancy indicator, under SpecTriage *)

\* the intake that differs from i in pregnancy only
OtherPregnancy(i) == [i EXCEPT !.pregnancy = ~@]

\* the booking run seeds for intake i classified at `level`, the facility
\* chosen being the same
SeededFor(i, level) ==
    SeedBooking(CoordinatorAgent.booking, BuildFacility(ItemA, "hospital"), i,
                level, clock).booking

\* C38: the pregnancy indicator has no influence on triage or on the
\* booking lifecycle: two intakes that differ only in pregnancy get the
\* same level, recommended_action, request_type and seeded status.
C38_PregnancyNoInfluence ==
    triageOut # None =>
        LET j == OtherPregnancy(triageIn)
            a == triageOut[1]
            b == TriageAgent_run(j, llmIn).result
        IN  /\ a.level = b.level
            /\ a.recommended_action = b.recommended_action
            /\ SeededFor(triageIn, a.level).request_type
                   = SeededFor(j, b.level).request_type
            /\ SeededFor(triageIn, a.level).status = SeededFor(j, b.level).status

C38_Witness ==
    /\ triageOut # None
    /\ triageIn.pregnancy
    /\ ~any(red_flags(triageIn))
    /\ ~triageIn.injury_trauma
    /\ triageOut[1].level = "low"
    /\ SeededFor(triageIn, triageOut[1].level).status = "PENDING_APPROVAL"

----------------------------------------------------------------------------
(* The directory queries of FacilityFinderAgent.run, under SpecFinder *)

\* the directory answers a term in the same way whatever the kind label
SameForBothKinds(failing) ==
    \A t \in AllTerms : (<<t, "hospital">> \in failing) <=> (<<t, "clinic">> \in failing)

\* the elements of a sequence
Range(s) == {s[k] : k \in 1..Len(s)}

\* C39: FacilityFinderAgent.run queries the directory once for every
\* (term, kind) pair, 8 queries for emergency/high and 4 otherwise; and
\* when the directory returns the same items for a term whatever the kind
\* label, every facility in the output has kind "hospital", for every
\* triage level.
C39_QueriesAndKinds ==
    finderOut # None =>
        LET qs == Queries(finderIn.level)
            n == IF finderIn.level \in {"emergency", "high"} THEN 8 ELSE 4
        IN  /\ Len(qs) = n
            /\ Cardinality(Range(qs)) = n
            /\ Range(qs) = Range(SearchTerms(finderIn.level))
                               \X Range(Kinds(finderIn.level))
            /\ metrics.tool_calls = n + Len(Annotated(finderIn))
            /\ SameForBothKinds(finderIn.failing) =>
                   \A a \in 1..Len(finderOut[1]) : finderOut[1][a].kind = "hospital"

C39_Witness ==
    /\ finderOut # None
    /\ finderIn.level = "low"
    /\ finderIn.failing = {<<"ER", "hospital">>, <<"ER", "clinic">>}
    /\ Kinds(finderIn.level)[1] = "clinic"
    /\ Len(finderOut[1]) = 5
    /\ \A a \in 1..5 : finderOut[1][a].kind = "hospital"
    /\ metrics.tool_calls = 11

----------------------------------------------------------------------------
(* Properties of the stored session and booking, under SpecApi *)

\* a request for the session has been answered with CONFIRMED or REJECTED
Terminated ==
    \E r \in succeeded : r.status \in {Some("CONFIRMED"), Some("REJECTED")}

\* C31: terminal states stay terminal across loss of the in-memory session
\* map: once the booking of the session has been confirmed or rejected, no
\* later approve-appointment or reject request for the session succeeds,
\* whether the instance holds the session or rebuilds the coordinator from
\* the stored triage session.
C31_TerminalSurvivesReload ==
    [][\A p \in Instances :
          (/\ Terminated
           /\ \/ ApiApproveAppointment(p)
              \/ \E reason \in Reasons : ApiRejectRequest(p, reason))
          => response'[1].code # 200]_vars

\* the step is a transition request handled by instance p and answered 200
TransitionAccepted(p) ==
    /\ \/ ApiAckAlert(p)
       \/ ApiApproveAppointment(p)
       \/ ApiApproveBooking(p)
       \/ \E reason \in Reasons : ApiRejectRequest(p, reason)
    /\ response'[1].code = 200

\* C32: after every successful transition request of the API (ack-alert,
\* approve-appointment, reject and the legacy approve), the status stored
\* for the booking of the session in the database equals the status of the
\* in-memory BookingState of the session.
C32_DatabaseFollowsMemory ==
    [][\A p \in Instances :
          (TransitionAccepted(p) /\ dbBooking' # None)
          => dbBooking'[1].status = sessions'[p][1].booking.status]_vars

----------------------------------------------------------------------------
(* The requests of one patient identified by an email address, on one      *)
(* server process with its database: process_intake with patient_email,    *)
(* and the transition handlers on the sessions it created.  A handler runs *)
(* to completion (async def without await), so requests are taken one      *)
(* after the other.                                                        *)

\* the session ids uuid4 hands out, in the order of the intake requests
PatientIds == <<"p1", "p2", "p3", "p4">>
PatientSessionIds == {PatientIds[k] : k \in 1..Len(PatientIds)}

PatientEmail == Some("patient@example.com")

\* the status values the two queries of db_service take for pending
PendingInDatabase == {"PENDING_ACK", "PENDING_APPROVAL", "pending_approval"}

\* the rows of the bookings table the two queries of db_service select
PendingRows(rows, email) ==
    {s \in DOMAIN rows : /\ rows[s] # None
                         /\ rows[s][1].patient_email = email
                         /\ rows[s][1].status \in PendingInDatabase}

get_pending_bookings_count(rows, email) == Cardinality(PendingRows(rows, email))

get_requested_hospitals(rows, email) ==
    {rows[s][1].facility_name : s \in PendingRows(rows, email)}

\* the two checks of process_intake before save_booking, made only for a
\* request with patient_email: "limit", "duplicate" or "ok"
IntakeCheck_NoLimit(rows, email, b) ==
    IF ~Truthy(email, "") THEN "ok"
    ELSE IF b.facility_name \in get_requested_hospitals(rows, email)
    THEN "duplicate"
    ELSE "ok"

IntakeCheck(rows, email, b) ==
    IF ~Truthy(email, "") THEN "ok"
    ELSE IF get_pending_bookings_count(rows, email) >= 3 THEN "limit"
    ELSE IF b.facility_name \in get_requested_hospitals(rows, email)
    THEN "duplicate"
    ELSE "ok"

\* the row save_booking writes for booking_data
BookingModel(b, now, email) == BookingData(b, now) @@ [patient_email |-> email]

\* process_intake after save_triage_session: c is the coordinator after run
PatientBooked(s, email, c) ==
    IF /\ Truthy(c.booking.facility_name, <<>>)
       /\ c.booking.status \in {"PENDING_ACK", "PENDING_APPROVAL"}
    THEN IF IntakeCheck(bookings, email, c.booking) = "ok"
         THEN /\ bookings' = [bookings EXCEPT
                                 ![s] = Some(BookingModel(c.booking, clock, email))]
              /\ response' = Some(Response("intake", 200, Some(c.booking.status)))
              /\ UNCHANGED refused
         ELSE /\ response' = Some(Response("intake", 400, None))
              /\ refused' = refused \cup {s}
              /\ UNCHANGED bookings
    ELSE /\ response' = Some(Response("intake", 200, Some(c.booking.status)))
         /\ UNCHANGED <<bookings, refused>>

\* process_intake from `sessions[session_id] = coordinator` on: r is the
\* outcome of coordinator.run
PatientStored(s, email, r) ==
    /\ coordinators' = [coordinators EXCEPT ![s] = Some(r.self)]
    /\ memFile' = r.file
    /\ metrics' = r.metrics
    /\ IF r.raised
       THEN /\ response' = Some(Response("intake", 500, None))
            /\ refused' = refused \cup {s}
            /\ UNCHANGED <<triage_sessions, bookings>>
       ELSE /\ triage_sessions' =
                   [triage_sessions EXCEPT
                       ![s] = Some(TriageSessionModel(r.self.booking,
                                                      r.self.triage[1].level))]
            /\ PatientBooked(s, email, r.self)

patientFrame == <<booking, intake, triage, recommendation, clock, runs, last,
                  triageVars, finderVars, toolVars, sessions, dbSession,
                  dbBooking, booking_data, succeeded>>

\* POST /api/intake?patient_email=..., answered with the k-th session id
PatientIntake(k, email, i, w) ==
    /\ coordinators[PatientIds[k]] = None
    /\ \A j \in 1..(k - 1) : coordinators[PatientIds[j]] # None
    /\ PatientStored(PatientIds[k], email,
                     CoordinatorAgent_run(CoordinatorAgent, i, w, memFile,
                                          metrics, clock))
    /\ UNCHANGED patientFrame

\* a transition handler on session s: c is the coordinator found in
\* sessions or loaded from the triage_sessions row, r the outcome of the
\* coordinator method, row the bookings row after update_booking_status
PatientTransition(op, s, c, r, row) ==
    /\ IF c = None
       THEN /\ response' = Some(Response(op, 404, None))
            /\ UNCHANGED <<coordinators, bookings>>
       ELSE IF r.raised
       THEN /\ response' = Some(Response(op, 400, None))
            /\ coordinators' = [coordinators EXCEPT ![s] = c]
            /\ UNCHANGED bookings
       ELSE /\ response' = Some(Response(op, 200, Some(r.booking.status)))
            /\ coordinators' =
                   [coordinators EXCEPT ![s] = Some([c[1] EXCEPT !.booking = r.booking])]
            /\ bookings' = [bookings EXCEPT ![s] = row]
    /\ UNCHANGED <<triage_sessions, refused, memFile, metrics, patientFrame>>

\* the booking a handler works on; of a fresh CoordinatorAgent when there
\* is no session, in which case the handler has answered 404 before
BookingOf(c) == IF c = None THEN CoordinatorAgent.booking ELSE c[1].booking

PatientAcked(s, c, r) ==
    PatientTransition("ack_alert", s, c, r,
        update_booking_status(bookings[s], r.booking.status, None,
            OrNow(r.booking.acknowledged_at, clock), None, None))

\* POST /api/booking/ack-alert/{session_id}: sessions only
PatientAckAlert(s) ==
    PatientAcked(s, coordinators[s], ack_alert(BookingOf(coordinators[s]), clock))

PatientApproved(s, c, r) ==
    PatientTransition("approve_appointment", s, c, r,
        update_booking_status(bookings[s], r.booking.status,
            OrNow(r.booking.approved_at, clock), None, None, None))

\* POST /api/booking/approve-appointment/{session_id}
PatientApproveAppointment(s) ==
    PatientApproved(s, LoadSession(coordinators[s], triage_sessions[s]),
        approve_appointment(
            BookingOf(LoadSession(coordinators[s], triage_sessions[s])), clock))

PatientRejected(s, c, r, reason) ==
    PatientTransition("reject_request", s, c, r,
        update_booking_status(bookings[s], r.booking.status, None, None,
            Some(clock), RejectionReason(reason)))

\* POST /api/booking/reject/{session_id}
PatientRejectRequest(s, reason) ==
    PatientRejected(s, LoadSession(coordinators[s], triage_sessions[s]),
        reject_request(
            BookingOf(LoadSession(coordinators[s], triage_sessions[s])), reason),
        reason)

\* the requests of the patient: an appointment request that meets
\* hospital A or B, a pre-arrival alert that meets hospital C or D, a
\* request while the geocoder is down, and one while the preference file
\* cannot be written
AppointmentIntake ==
    IntakeAnswers("Test Patient", "Karachi Pakistan", <<"fever", "mild cough">>, {})
AlertIntake ==
    IntakeAnswers("Test Patient", "Karachi Pakistan", <<"fever", "mild cough">>,
                  {"chest_pain", "pregnancy"})

PatientRequests ==
    {<<AppointmentIntake, World(GeoUp, DirAll(<<ItemA>>), EtaDown, Mock, TRUE)>>,
     <<AppointmentIntake, World(GeoUp, DirAll(<<ItemB>>), EtaDown, Mock, TRUE)>>,
     <<AlertIntake, World(GeoUp, DirAll(<<ItemC>>), EtaDown, Mock, TRUE)>>,
     <<AlertIntake, World(GeoUp, DirAll(<<ItemD>>), EtaDown, Mock, TRUE)>>,
     <<AppointmentIntake, World(GeoDown, DirAll(<<ItemA>>), EtaDown, Mock, TRUE)>>,
     <<AppointmentIntake, World(GeoUp, DirAll(<<ItemB>>), EtaDown, Mock, FALSE)>>}

PatientReasons == {Some("No beds available")}

InitPatient ==
    /\ booking = CoordinatorAgent.booking
    /\ intake = CoordinatorAgent.intake
    /\ triage = CoordinatorAgent.triage
    /\ recommendation = CoordinatorAgent.recommendation
    /\ memFile = None
    /\ metrics = METRICS
    /\ clock = 1
    /\ runs = 0
    /\ last = [op |-> "__init__", raised |-> FALSE, error |-> None]
    /\ triageIn = IntakeAnswers("Test Patient", "Karachi Pakistan", <<>>, {})
    /\ llmIn = [client |-> "mock"]
    /\ triageOut = None
    /\ llmAgain = None
    /\ triageAgain = None
    /\ finderIn = None
    /\ finderOut = None
    /\ toolIn = None
    /\ toolOut = None
    /\ sessions = [p \in Instances |-> None]
    /\ coordinators = [s \in PatientSessionIds |-> None]
    /\ triage_sessions = [s \in PatientSessionIds |-> None]
    /\ bookings = [s \in PatientSessionIds |-> None]
    /\ refused = {}
    /\ dbSession = None
    /\ dbBooking = None
    /\ booking_data = [p \in Instances |-> None]
    /\ response = None
    /\ succeeded = {}

PatientIntakeAny == \E k \in 1..Len(PatientIds), q \in PatientRequests : PatientIntake(k, PatientEmail, q[1], q[2])
\* the sessions whose request the hospital has decided
Decided ==
    {s \in PatientSessionIds :
        /\ coordinators[s] # None
        /\ coordinators[s][1].booking.status \in TerminalStatuses}

\* the hospital sends its requests until it has decided MaxDecided of the
\* patient's requests
MaxDecided == 1

PatientAckAlertAny == Cardinality(Decided) < MaxDecided /\ \E s \in PatientSessionIds : PatientAckAlert(s)
PatientApproveAppointmentAny == Cardinality(Decided) < MaxDecided /\ \E s \in PatientSessionIds : PatientApproveAppointment(s)
PatientRejectRequestAny == Cardinality(Decided) < MaxDecided /\ \E s \in PatientSessionIds, reason \in PatientReasons : PatientRejectRequest(s, reason)

NextPatient ==
    \/ PatientIntakeAny
    \/ PatientAckAlertAny
    \/ PatientApproveAppointmentAny
    \/ PatientRejectRequestAny

SpecPatient == InitPatient /\ [][NextPatient]_vars

----------------------------------------------------------------------------
(* Properties of a patient's requests, under SpecPatient *)

\* C33: after any sequence of intake, ack, approve and reject requests, a
\* patient identified by email has at most 3 stored pending bookings
\* (PENDING_ACK or PENDING_APPROVAL), and at most one pending booking per
\* facility.
C33_PendingLimit ==
    /\ get_pending_bookings_count(bookings, PatientEmail) <= 3
    /\ \A s, t \in PendingRows(bookings, PatientEmail) :
           bookings[s][1].facility_name = bookings[t][1].facility_name => s = t

\* three pending bookings are stored and the fourth intake was refused
C33_Witness ==
    /\ get_pending_bookings_count(bookings, PatientEmail) = 3
    /\ response = Some(Response("intake", 400, None))
    /\ refused = {PatientIds[4]}
    /\ bookings[PatientIds[4]] = None

\* the step is the intake request answered with session id s
PatientIntakeStep(s) == coordinators[s] = None /\ coordinators'[s] # None

\* the step is a transition request on session s that was carried out
PatientTransitionStep(s) ==
    /\ coordinators[s] # None
    /\ coordinators'[s] # coordinators[s]
    /\ response'[1].code = 200

\* C34: a refused intake (pending-limit error, duplicate-hospital error or
\* pipeline failure) leaves no trace that can be acted on: no triage
\* session is stored for it, and no later ack, approve or reject request on
\* its session id succeeds.
C34_RefusedLeavesNoTrace ==
    [][\A s \in PatientSessionIds :
          /\ (PatientIntakeStep(s) /\ response'[1].code # 200)
                 => triage_sessions'[s] = None
          /\ s \in refused => ~PatientTransitionStep(s)]_vars

====
